---- MODULE Spec2Model ----
(***************************************************************************)
(* A model of the in-memory substrate and table writer of leveldb:         *)
(*   - the LRU cache shard of util/cache.cc (hash table, two lists,        *)
(*     reference counts, deleters) and the sharded cache made of 16 shards,*)
(*   - the skiplist of db/skiplist.h,                                      *)
(*   - the memtable of db/memtable.cc,                                     *)
(*   - the table builder of table/table_builder.cc,                        *)
(*   - BuildTable of db/builder.cc,                                        *)
(*   - the table cache of db/table_cache.cc,                               *)
(*   - the filter block builder and reader of table/filter_block.cc.       *)
(* Each component has its own specification; the variables of the other    *)
(* components stay at their idle values.                                   *)
(***************************************************************************)
EXTENDS Integers, Sequences, FiniteSets, TLC

VARIABLES
    \* ---- LRUCache (one shard), util/cache.cc ----
    capacity_,      \* LRUCache::capacity_
    usage_,         \* LRUCache::usage_
    lru_,           \* the lru_ list, from lru_.next (oldest) to lru_.prev (newest)
    in_use_,        \* the in_use_ list, from in_use_.next to in_use_.prev
    table_,         \* HandleTable: [length_, elems_, list_ (bucket -> chain)]
    heap,           \* the LRUHandle allocations, by handle address
    next_handle,    \* the next address malloc returns
    held,           \* per handle: the client handles not yet released
    inserted,       \* per handle: the <<key, value>> given at its Insert
    deleter_calls,  \* per handle: the <<key, value>> its deleter was invoked with
    destroyed       \* ~LRUCache has run

cacheVars == <<capacity_, usage_, lru_, in_use_, table_, heap, next_handle,
               held, inserted, deleter_calls, destroyed>>

VARIABLES
    \* ---- the client of the shard: what it has called ----
    last_op,        \* the last call: <<"Insert", n, old>> for an Insert whose
                    \* eviction removed n entries and whose key was that of the
                    \* cached entry old (NULL: of none), <<"Lookup", e>> for a
                    \* Lookup that returned e, <<"Release", e>> for the Release
                    \* of e right after that Lookup, <<"Erase", e>> for an Erase
                    \* of the key of the cached entry e (NULL: of a key that is
                    \* not cached), <<"other", NULL>> else
    release_order   \* the cached entries no client holds, in the order of the
                    \* Release that left them without a client, oldest first

clientVars == <<last_op, release_order>>

VARIABLES
    \* ---- ShardedLRUCache, util/cache.cc ----
    shard_,         \* shard_[0..15]: [capacity, usage, lru, in_use, table], the
                    \* members of each LRUCache; the handles are in heap
    cache_capacity, \* the capacity NewLRUCache was called with
    plain_inserts,  \* every call so far was an Insert of charge 1 or the
                    \* Release of the handle of the Insert right before it
    called,         \* the last call: <<"keyed", 0>> for an Insert, a Lookup, a
                    \* Release or an Erase, <<"Prune", n>> for a Prune that
                    \* removed n entries, <<"none", 0>> before any
    locked          \* the shards whose mutex_ the last call has taken

shardVars == <<shard_, cache_capacity, plain_inserts, called, locked>>

VARIABLES
    \* ---- SkipList, db/skiplist.h ----
    compare_,       \* SkipList::compare_, the comparator in use
    node,           \* the nodes by address: [key, height, next_], as readers see them
    max_height_,    \* SkipList::max_height_
    relaxed,        \* relaxed stores of the writer not yet visible to the readers
    writer,         \* the Insert in progress: its locals and its position
    reader,         \* per reader thread: its iterator and what it has observed
    completed,      \* the keys whose Insert has returned
    racers          \* per thread that calls Insert without the external
                    \* synchronisation: [w, key, before, done], its locals, its
                    \* key, the keys completed when it began, and its return

skipVars == <<compare_, node, max_height_, relaxed, writer, reader, completed, racers>>

VARIABLES
    \* ---- MemTable, db/memtable.cc (its table_ is the skiplist above) ----
    added           \* the Add calls so far: [s, type, key, value]

memVars == <<added>>

VARIABLES
    \* ---- TableBuilder::Rep, table/table_builder.cc ----
    options, index_block_options,
    file,                   \* what has been appended to the file, in order
    offset, status, data_block, index_block, last_key, num_entries, closed,
    filter_block,           \* NoFilterBlock or the FilterBlockBuilder
    pending_index_entry, pending_handle,
    add_calls,              \* the Add calls so far: [key, value]
    finished,               \* Finish has returned, with status
    change_call             \* <<opt, what was returned>> when the last call on
                            \* the builder was ChangeOptions(opt), else <<>>

tbVars == <<options, index_block_options, file, offset, status, data_block,
            index_block, last_key, num_entries, closed, filter_block,
            pending_index_entry, pending_handle, add_calls, finished, change_call>>

VARIABLES
    \* ---- BuildTable, db/builder.cc (its builder is the TableBuilder above) ----
    bt_pc,          \* where the call is: "start", "loop", "finish", "sync",
                    \* "verify", "check" or "done"
    iter,           \* *iter: [entries, pos, error]
    meta,           \* *meta: [number, file_size, smallest, largest]
    bt_s,           \* the local Status s
    table_files,    \* the names of the files of the Env that exist
    env_calls,      \* the calls made on env and on the file: [op, fname]
    bt_ret,         \* the Status returned, "running" before the return
    stored          \* what a reader finds in the new file at the verification:
                    \* "good", "unopenable" (Table::Open fails), "bad block"
                    \* (a data block cannot be read), "unread" before it

btVars == <<bt_pc, iter, meta, bt_s, table_files, env_calls, bt_ret, stored>>

VARIABLES
    \* ---- TableCache, db/table_cache.cc (its cache_ is the shard above) ----
    tc_thread,      \* per thread, its call: [pc, op, file_number, handle, s]
    tc_files,       \* the files of the Env by name: "absent", "good", "corrupt"
    iterators,      \* per cache handle: the live iterators of NewIterator on it
    find_failed,    \* next_handle at the first FindTable that failed, 0 before it
    raced           \* the entry that an Insert of FindTable has found cached for
                    \* its file number and displaced, 0 before the first

tcVars == <<tc_thread, tc_files, iterators, find_failed, raced>>

VARIABLES
    \* ---- FilterBlockBuilder and FilterBlockReader, table/filter_block.cc ----
    fb_builder,     \* the FilterBlockBuilder: [policy, keys, result, filter_offsets]
    fb_offset,      \* the block_offset of the last StartBlock, -1 before the first
    fb_keys,        \* the AddKey calls after a StartBlock: <<block_offset, key>>
    fb_finished,    \* Finish has returned; fb_builder.result is the filter block
    fb_contents,    \* the contents a FilterBlockReader was constructed on
    fb_reader,      \* that FilterBlockReader: [policy, data, offset, num, base_lg]
    fb_call         \* its last KeyMayMatch: <<block_offset, key, result>>

fbVars == <<fb_builder, fb_offset, fb_keys, fb_finished, fb_contents, fb_reader,
            fb_call>>

VARIABLES
    \* ---- ParseFileName and its caller, db/filename.cc ----
    fn_name,        \* the name given to the last ParseFileName
    fn_made,        \* <<name function, number>> when that name was made by one
    fn_ok,          \* what the last ParseFileName returned
    fn_number,      \* the caller's number and type after it
    fn_type,
    fn_prev         \* [name, ok, number, type] of the call before the last

fnVars == <<fn_name, fn_made, fn_ok, fn_number, fn_type, fn_prev>>

vars == <<cacheVars, clientVars, shardVars, skipVars, memVars, tbVars, btVars, tcVars,
          fbVars, fnVars>>

----------------------------------------------------------------------------
(* Generic helpers.                                                        *)

NULL == 0

\* F of the value of v, which is computed once.
Bind(v, F(_)) == CHOOSE y \in {F(x) : x \in {v}} : TRUE

Sign(n) == IF n < 0 THEN -1 ELSE IF n > 0 THEN 1 ELSE 0
Min(a, b) == IF a < b THEN a ELSE b
Max(a, b) == IF a > b THEN a ELSE b

SeqRemove(s, e) == SelectSeq(s, LAMBDA x : x # e)
SeqToSet(s) == {s[i] : i \in 1..Len(s)}

RECURSIVE SumOver(_, _)
SumOver(S, f) ==
    IF S = {} THEN 0
    ELSE LET x == CHOOSE y \in S : TRUE IN f[x] + SumOver(S \ {x}, f)

----------------------------------------------------------------------------
(* util/hash.cc.  A uint32_t is four bytes, least significant first (the   *)
(* values do not fit the integers of the model checker).                   *)

U32(n) == <<n % 256, (n \div 256) % 256, (n \div 65536) % 256, 0>>

U32Add(a, b) ==
    LET s1 == a[1] + b[1]
        s2 == a[2] + b[2] + (s1 \div 256)
        s3 == a[3] + b[3] + (s2 \div 256)
        s4 == a[4] + b[4] + (s3 \div 256)
    IN  <<s1 % 256, s2 % 256, s3 % 256, s4 % 256>>

U32Mul(a, b) ==
    LET p1 == a[1] * b[1]
        p2 == a[1] * b[2] + a[2] * b[1] + (p1 \div 256)
        p3 == a[1] * b[3] + a[2] * b[2] + a[3] * b[1] + (p2 \div 256)
        p4 == a[1] * b[4] + a[2] * b[3] + a[3] * b[2] + a[4] * b[1] + (p3 \div 256)
    IN  <<p1 % 256, p2 % 256, p3 % 256, p4 % 256>>

RECURSIVE BitXor(_, _)
BitXor(a, b) ==
    IF a = 0 THEN b
    ELSE IF b = 0 THEN a
    ELSE (((a % 2) + (b % 2)) % 2) + 2 * BitXor(a \div 2, b \div 2)

U32Xor(a, b) == [i \in 1..4 |-> BitXor(a[i], b[i])]

\* h >> 8*k
U32ShiftRightBytes(a, k) == [i \in 1..4 |-> IF i + k <= 4 THEN a[i + k] ELSE 0]
\* b << 8*k, for a byte b
U32ByteShifted(b, k) == [i \in 1..4 |-> IF i = k + 1 THEN b ELSE 0]

HashM == <<147, 167, 164, 198>>     \* 0xc6a4a793

RECURSIVE HashWords(_, _, _)
HashWords(data, pos, h) ==
    IF pos + 4 <= Len(data) + 1
    THEN LET w  == <<data[pos], data[pos + 1], data[pos + 2], data[pos + 3]>>
             h1 == U32Mul(U32Add(h, w), HashM)
         IN  HashWords(data, pos + 4, U32Xor(h1, U32ShiftRightBytes(h1, 2)))
    ELSE <<pos, h>>

Hash(data, seed) ==
    LET n    == Len(data)
        h0   == U32Xor(seed, U32Mul(U32(n), HashM))
        r    == HashWords(data, 1, h0)
        pos  == r[1]
        rest == n - pos + 1
        h1   == IF rest >= 3 THEN U32Add(r[2], U32ByteShifted(data[pos + 2], 2)) ELSE r[2]
        h2   == IF rest >= 2 THEN U32Add(h1, U32ByteShifted(data[pos + 1], 1)) ELSE h1
        h3   == U32Mul(U32Add(h2, U32ByteShifted(data[pos], 0)), HashM)
    IN  IF rest >= 1 THEN U32Xor(h3, U32ShiftRightBytes(h3, 3)) ELSE r[2]

HashSlice(s) == Hash(s, U32(0))

----------------------------------------------------------------------------
(* util/cache.cc: one shard (class LRUCache) with its HandleTable.         *)

MaxHandles == 3         \* Insert calls in one run
Capacities == {0, 2}    \* the capacities tried (SetCapacity)
\* The charges tried: a client charges an entry by what it holds, so a key
\* comes with one charge, "v" being twice as large as the others.
Charges(key) == IF key = <<118>> THEN {2} ELSE {1}
MaxHeld == 2            \* client handles to one entry at a time

\* Three one-byte keys, "m", "v" and "d": all hash into shard 1, "m" and "v"
\* into the same bucket of a 4-bucket table.
Keys == {<<109>>, <<118>>, <<100>>}
Handles == 1..MaxHandles
\* The value pointers: every Insert is given an object of its own.
ValueFor(e) == 100 + e
\* The file numbers of the tables that go through the table cache: their
\* keys hash into one shard (12) and one bucket of a 4-bucket table.
FileNumbers == {8, 9}

\* A uint64_t below 2^31 as eight bytes, least significant first.
EncodeFixed64(value) ==
    <<value % 256, (value \div 256) % 256, (value \div 65536) % 256,
      (value \div 16777216) % 256, 0, 0, 0, 0>>

\* HashSlice of the keys, computed once.
KeyHash ==
    [k \in Keys \cup {<<97>>, <<98>>} \cup {EncodeFixed64(n) : n \in FileNumbers} |->
        HashSlice(k)]

\* An LRUHandle.  Only a "live" allocation has meaningful fields.
NoHandle ==
    [alloc |-> "unallocated", key |-> <<>>, hash |-> U32(0), value |-> NULL,
     charge |-> 0, in_cache |-> FALSE, refs |-> 0]
\* free(e): the fields are gone; in_cache is kept as it was at the free, which
\* is what assert(!e->in_cache) of Unref looks at.
FreedHandle(in_cache) == [NoHandle EXCEPT !.alloc = "freed", !.in_cache = in_cache]

\* ---- HandleTable ----

\* hash & (length_ - 1), length_ a power of two not above 256
BucketOf(hash, length) == hash[1] % length

EmptyBuckets(length) == [i \in 0..(length - 1) |-> <<>>]

RECURSIVE ResizeLength(_, _)
ResizeLength(new_length, elems) ==
    IF new_length < elems THEN ResizeLength(new_length * 2, elems) ELSE new_length

\* The handles of all buckets, bucket by bucket, each along next_hash.
RECURSIVE AllChained(_, _)
AllChained(t, i) ==
    IF i >= t.length_ THEN <<>> ELSE t.list_[i] \o AllChained(t, i + 1)

\* Moves the handles one by one to the head of their new bucket.
RECURSIVE Rehash(_, _, _, _)
Rehash(hp, todo, new_list, new_length) ==
    IF todo = <<>> THEN new_list
    ELSE LET h == Head(todo)
             b == BucketOf(hp[h].hash, new_length)
         IN  Rehash(hp, Tail(todo), [new_list EXCEPT ![b] = <<h>> \o @], new_length)

Resize(hp, t) ==
    LET new_length == ResizeLength(4, t.elems_)
    IN  [length_ |-> new_length, elems_ |-> t.elems_,
         list_ |-> Rehash(hp, AllChained(t, 0), EmptyBuckets(new_length), new_length)]

\* The position in the bucket's chain of the handle matching key/hash, or
\* one past the end of the chain.
RECURSIVE FindInChain(_, _, _, _, _)
FindInChain(hp, chain, pos, key, hash) ==
    IF pos > Len(chain) THEN pos
    ELSE IF hp[chain[pos]].hash # hash \/ key # hp[chain[pos]].key
         THEN FindInChain(hp, chain, pos + 1, key, hash)
         ELSE pos

FindPointer(hp, t, key, hash) ==
    LET b == BucketOf(hash, t.length_)
    IN  [bucket |-> b, pos |-> FindInChain(hp, t.list_[b], 1, key, hash)]

SlotValue(t, ptr) ==
    IF ptr.pos <= Len(t.list_[ptr.bucket]) THEN t.list_[ptr.bucket][ptr.pos] ELSE NULL

HandleTableLookup(hp, t, key, hash) == SlotValue(t, FindPointer(hp, t, key, hash))

\* Insert that adds the entry at the end of its chain whether or not the
\* chain has an entry of its key.
HandleTableInsertBesideOld(hp, t, h) ==
    LET b == BucketOf(hp[h].hash, t.length_)
        t1 == [t EXCEPT !.list_[b] = Append(@, h), !.elems_ = @ + 1]
    IN  [table |-> IF t1.elems_ > t1.length_ THEN Resize(hp, t1) ELSE t1,
         old |-> NULL]

\* Returns [table, old].
HandleTableInsert(hp, t, h) ==
    LET ptr == FindPointer(hp, t, hp[h].key, hp[h].hash)
        old == SlotValue(t, ptr)
        chain == t.list_[ptr.bucket]
        t1 == IF old = NULL
              THEN [t EXCEPT !.list_[ptr.bucket] = Append(chain, h),
                             !.elems_ = @ + 1]
              ELSE [t EXCEPT !.list_[ptr.bucket] = [chain EXCEPT ![ptr.pos] = h]]
    IN  [table |-> IF old = NULL /\ t1.elems_ > t1.length_ THEN Resize(hp, t1) ELSE t1,
         old |-> old]

\* Remove that returns the entry and leaves it in its chain.
HandleTableRemoveUnlinkingNothing(hp, t, key, hash) ==
    [table |-> t, result |-> SlotValue(t, FindPointer(hp, t, key, hash))]

\* Returns [table, result].
HandleTableRemove(hp, t, key, hash) ==
    LET ptr == FindPointer(hp, t, key, hash)
        result == SlotValue(t, ptr)
        chain == t.list_[ptr.bucket]
    IN  [table |-> IF result # NULL
                   THEN [t EXCEPT !.list_[ptr.bucket] =
                                      SubSeq(chain, 1, ptr.pos - 1)
                                      \o SubSeq(chain, ptr.pos + 1, Len(chain)),
                                  !.elems_ = @ - 1]
                   ELSE t,
         result |-> result]

\* ---- LRUCache ----

\* The mutex-protected members and the heap, threaded through the helpers.
Shard ==
    [usage |-> usage_, lru |-> lru_, in_use |-> in_use_, table |-> table_,
     heap |-> heap, deleted |-> deleter_calls]

LRU_Remove(s, e) ==
    [s EXCEPT !.lru = SeqRemove(@, e), !.in_use = SeqRemove(@, e)]

\* LRU_Append that links the entry in at the oldest end of the list.
LRU_AppendOldest(s, list, e) ==
    IF list = "lru_" THEN [s EXCEPT !.lru = <<e>> \o @]
    ELSE [s EXCEPT !.in_use = <<e>> \o @]

LRU_Append(s, list, e) ==
    IF list = "lru_" THEN [s EXCEPT !.lru = Append(@, e)]
    ELSE [s EXCEPT !.in_use = Append(@, e)]

\* Ref that moves the entry and does not count the reference.
RefUncounted(s, e) ==
    IF s.heap[e].refs = 1 /\ s.heap[e].in_cache
    THEN LRU_Append(LRU_Remove(s, e), "in_use_", e)
    ELSE s

\* Ref without the move from lru_ to in_use_.
RefNoMove(s, e) == [s EXCEPT !.heap[e].refs = @ + 1]

Ref(s, e) ==
    LET s1 == IF s.heap[e].refs = 1 /\ s.heap[e].in_cache
              THEN LRU_Append(LRU_Remove(s, e), "in_use_", e)
              ELSE s
    IN  [s1 EXCEPT !.heap[e].refs = @ + 1]

\* Unref that never calls the deleter nor frees the entry.
UnrefWithoutDeleter(s, e) ==
    LET s1 == [s EXCEPT !.heap[e].refs = @ - 1]
    IN  IF s1.heap[e].in_cache /\ s1.heap[e].refs = 1
        THEN LRU_Append(LRU_Remove(s1, e), "lru_", e)
        ELSE s1

\* Unref that frees the entry one reference early.
UnrefEarly(s, e) ==
    LET s1 == [s EXCEPT !.heap[e].refs = @ - 1]
    IN  IF s1.heap[e].refs <= 1
        THEN [LRU_Remove(s1, e) EXCEPT
                  !.deleted[e] = Append(@, <<s1.heap[e].key, s1.heap[e].value>>),
                  !.heap[e] = FreedHandle(s1.heap[e].in_cache)]
        ELSE s1

Unref(s, e) ==
    LET s1 == [s EXCEPT !.heap[e].refs = @ - 1]
    IN  IF s1.heap[e].refs = 0
        THEN [s1 EXCEPT !.deleted[e] = Append(@, <<s1.heap[e].key, s1.heap[e].value>>),
                        !.heap[e] = FreedHandle(s1.heap[e].in_cache)]
        ELSE IF s1.heap[e].in_cache /\ s1.heap[e].refs = 1
             THEN LRU_Append(LRU_Remove(s1, e), "lru_", e)
             ELSE s1

\* FinishErase without the update of usage_.
FinishEraseKeepUsage(s, e) ==
    IF e # NULL
    THEN Unref([LRU_Remove(s, e) EXCEPT !.heap[e].in_cache = FALSE], e)
    ELSE s

FinishErase(s, e) ==
    IF e # NULL
    THEN Unref([LRU_Remove(s, e) EXCEPT !.heap[e].in_cache = FALSE,
                                        !.usage = @ - s.heap[e].charge], e)
    ELSE s

\* table_.Remove followed by FinishErase
RemoveAndFinishErase(s, key, hash) ==
    LET r == HandleTableRemove(s.heap, s.table, key, hash)
    IN  FinishErase([s EXCEPT !.table = r.table], r.result)

\* The eviction loop of Insert, as an if: at most one entry is evicted.
EvictOnce(s, capacity) ==
    IF s.usage > capacity /\ s.lru # <<>>
    THEN RemoveAndFinishErase(s, s.heap[Head(s.lru)].key, s.heap[Head(s.lru)].hash)
    ELSE s

\* The eviction loop of Insert.
RECURSIVE EvictLoop(_, _)
EvictLoop(s, capacity) ==
    IF s.usage > capacity /\ s.lru # <<>>
    THEN LET old == Head(s.lru)
         IN  EvictLoop(RemoveAndFinishErase(s, s.heap[old].key, s.heap[old].hash),
                       capacity)
    ELSE s

\* Prune that removes the oldest entry of the lru_ list only.
PruneOldest(s) ==
    IF s.lru # <<>>
    THEN RemoveAndFinishErase(s, s.heap[Head(s.lru)].key, s.heap[Head(s.lru)].hash)
    ELSE s

\* The loop of Prune.
RECURSIVE PruneLoop(_)
PruneLoop(s) ==
    IF s.lru # <<>>
    THEN LET e == Head(s.lru)
         IN  PruneLoop(RemoveAndFinishErase(s, s.heap[e].key, s.heap[e].hash))
    ELSE s

\* ~LRUCache without its loop.
DestroyNothing(s, todo) == s

\* The loop of ~LRUCache: the list is walked, not unlinked.
RECURSIVE DestroyLoop(_, _)
DestroyLoop(s, todo) ==
    IF todo = <<>> THEN s
    ELSE DestroyLoop(Unref([s EXCEPT !.heap[Head(todo)].in_cache = FALSE], Head(todo)),
                     Tail(todo))

SetShard(s) ==
    /\ usage_' = s.usage
    /\ lru_' = s.lru
    /\ in_use_' = s.in_use
    /\ table_' = s.table
    /\ heap' = s.heap
    /\ deleter_calls' = s.deleted

\* NewLRUCache(capacity), one shard of it.
LRUCacheStart(capacity) ==
    /\ capacity_ = capacity
    /\ usage_ = 0
    /\ lru_ = <<>>
    /\ in_use_ = <<>>
    /\ table_ = [length_ |-> 4, elems_ |-> 0, list_ |-> EmptyBuckets(4)]
    /\ heap = [h \in Handles |-> NoHandle]
    /\ next_handle = 1
    /\ held = [h \in Handles |-> 0]
    /\ inserted = [h \in Handles |-> <<>>]
    /\ deleter_calls = [h \in Handles |-> <<>>]
    /\ destroyed = FALSE

CacheStart ==
    /\ capacity_ \in Capacities
    /\ usage_ = 0
    /\ lru_ = <<>>
    /\ in_use_ = <<>>
    /\ table_ = [length_ |-> 4, elems_ |-> 0, list_ |-> EmptyBuckets(4)]
    /\ heap = [h \in Handles |-> NoHandle]
    /\ next_handle = 1
    /\ held = [h \in Handles |-> 0]
    /\ inserted = [h \in Handles |-> <<>>]
    /\ deleter_calls = [h \in Handles |-> <<>>]
    /\ destroyed = FALSE

\* Insert that caches the entry whatever the capacity is.
LRUInsertCachingAlways(s, capacity, e, key, hash, value, charge) ==
    LET s0 == [s EXCEPT !.heap[e] =
                   [alloc |-> "live", key |-> key, hash |-> hash, value |-> value,
                    charge |-> charge, in_cache |-> TRUE, refs |-> 2]]
        b == [LRU_Append(s0, "in_use_", e) EXCEPT !.usage = @ + charge]
        r == HandleTableInsert(b.heap, b.table, e)
    IN  EvictLoop(FinishErase([b EXCEPT !.table = r.table], r.old), capacity)

\* LRUCache::Insert on the shard s of the given capacity; e is the handle
\* that malloc returns.
LRUInsert(s, capacity, e, key, hash, value, charge) ==
    LET s0 == [s EXCEPT !.heap[e] =
                   [alloc |-> "live", key |-> key, hash |-> hash, value |-> value,
                    charge |-> charge, in_cache |-> FALSE, refs |-> 1]]
        s1 == IF capacity > 0
              THEN LET a == LRU_Append([s0 EXCEPT !.heap[e].refs = @ + 1,
                                                  !.heap[e].in_cache = TRUE],
                                       "in_use_", e)
                       b == [a EXCEPT !.usage = @ + charge]
                       r == HandleTableInsert(b.heap, b.table, e)
                   IN  FinishErase([b EXCEPT !.table = r.table], r.old)
              ELSE s0
    IN  EvictLoop(s1, capacity)

\* LRUCache::Insert, on the members of the shard.
LRUCacheInsert(key, value, charge) ==
    /\ ~destroyed
    /\ next_handle <= MaxHandles
    /\ SetShard(LRUInsert(Shard, capacity_, next_handle, key, KeyHash[key], value,
                          charge))
    /\ held' = [held EXCEPT ![next_handle] = 1]
    /\ inserted' = [inserted EXCEPT ![next_handle] = <<key, value>>]
    /\ next_handle' = next_handle + 1
    /\ UNCHANGED <<capacity_, destroyed>>

\* ---- the client's record of its calls ----

Cached(hp, e) == hp[e].alloc = "live" /\ hp[e].in_cache

\* The entries of order that are cached in hp, e left out.
StillCached(order, hp, e) == SelectSeq(order, LAMBDA x : x # e /\ Cached(hp, x))

\* The entries that were cached under another key than key and are no
\* longer: those the eviction loop of an Insert of key removed.
EvictedBy(key, before, after) ==
    {x \in Handles : Cached(before, x) /\ before[x].key # key /\ ~Cached(after, x)}

\* A call that is neither a Lookup nor the Release after it.
ClientCalls(op) ==
    /\ last_op' = op
    /\ release_order' = StillCached(release_order, heap', NULL)

Insert(key, value, charge) ==
    /\ LRUCacheInsert(key, value, charge)
    /\ ClientCalls(<<"Insert", Cardinality(EvictedBy(key, heap, heap')),
                     HandleTableLookup(heap, table_, key, KeyHash[key])>>)
    /\ UNCHANGED <<skipVars, memVars, tbVars, btVars, tcVars, fbVars, shardVars, fnVars>>

\* LRUCache::Lookup, on the members of the shard.
LRUCacheLookup(key) ==
    /\ ~destroyed
    /\ LET e == HandleTableLookup(heap, table_, key, KeyHash[key])
       IN  IF e # NULL
           THEN /\ held[e] < MaxHeld
                /\ SetShard(Ref(Shard, e))
                /\ held' = [held EXCEPT ![e] = @ + 1]
           ELSE UNCHANGED <<usage_, lru_, in_use_, table_, heap, deleter_calls, held>>
    /\ UNCHANGED <<capacity_, next_handle, inserted, destroyed>>

Lookup(key) ==
    /\ LRUCacheLookup(key)
    /\ \E e \in {HandleTableLookup(heap, table_, key, KeyHash[key])} :
           /\ last_op' = IF e # NULL THEN <<"Lookup", e>> ELSE <<"other", NULL>>
           /\ release_order' = StillCached(release_order, heap', e)
    /\ UNCHANGED <<skipVars, memVars, tbVars, btVars, tcVars, fbVars, shardVars, fnVars>>

\* Release left out: the caller goes on without giving its handle back.
LRUCacheReleaseForgotten(handle) ==
    /\ ~destroyed
    /\ held[handle] > 0
    /\ UNCHANGED cacheVars

\* Release that drops the reference and leaves the entry where it is.
LRUCacheReleaseInPlace(handle) ==
    /\ ~destroyed
    /\ held[handle] > 0
    /\ SetShard([Shard EXCEPT !.heap[handle].refs = @ - 1])
    /\ held' = [held EXCEPT ![handle] = @ - 1]
    /\ UNCHANGED <<capacity_, next_handle, inserted, destroyed>>

\* LRUCache::Release, on the members of the shard.
LRUCacheRelease(handle) ==
    /\ ~destroyed
    /\ held[handle] > 0
    /\ SetShard(Unref(Shard, handle))
    /\ held' = [held EXCEPT ![handle] = @ - 1]
    /\ UNCHANGED <<capacity_, next_handle, inserted, destroyed>>

Release(handle) ==
    /\ LRUCacheRelease(handle)
    /\ last_op' = IF last_op = <<"Lookup", handle>> THEN <<"Release", handle>>
                  ELSE <<"other", NULL>>
    /\ release_order' =
           IF held'[handle] = 0 /\ Cached(heap', handle)
           THEN Append(StillCached(release_order, heap', handle), handle)
           ELSE StillCached(release_order, heap', NULL)
    /\ UNCHANGED <<skipVars, memVars, tbVars, btVars, tcVars, fbVars, shardVars, fnVars>>

\* Erase that frees the entry it removes although clients hold it.
LRUCacheEraseFreeing(key) ==
    /\ ~destroyed
    /\ \E e \in {HandleTableLookup(heap, table_, key, KeyHash[key])} :
           IF e = NULL
           THEN UNCHANGED <<usage_, lru_, in_use_, table_, heap, deleter_calls>>
           ELSE SetShard([RemoveAndFinishErase(Shard, key, KeyHash[key]) EXCEPT
                              !.deleted[e] = IF @ = <<>>
                                             THEN <<<<key, heap[e].value>>>> ELSE @,
                              !.heap[e] = FreedHandle(FALSE)])
    /\ UNCHANGED <<capacity_, next_handle, held, inserted, destroyed>>

\* LRUCache::Erase, on the members of the shard.
LRUCacheErase(key) ==
    /\ ~destroyed
    /\ SetShard(RemoveAndFinishErase(Shard, key, KeyHash[key]))
    /\ UNCHANGED <<capacity_, next_handle, held, inserted, destroyed>>

Erase(key) ==
    /\ LRUCacheErase(key)
    /\ ClientCalls(<<"Erase", HandleTableLookup(heap, table_, key, KeyHash[key])>>)
    /\ UNCHANGED <<skipVars, memVars, tbVars, btVars, tcVars, fbVars, shardVars, fnVars>>

Prune ==
    /\ ~destroyed
    /\ UNCHANGED <<skipVars, memVars, tbVars, btVars, tcVars, fbVars, shardVars, fnVars>>
    /\ SetShard(PruneLoop(Shard))
    /\ ClientCalls(<<"other", NULL>>)
    /\ UNCHANGED <<capacity_, next_handle, held, inserted, destroyed>>

\* ~LRUCache
Destroy ==
    /\ ~destroyed
    /\ UNCHANGED <<skipVars, memVars, tbVars, btVars, tcVars, fbVars, shardVars, fnVars>>
    /\ in_use_ = <<>>
    /\ SetShard(DestroyLoop(Shard, lru_))
    /\ destroyed' = TRUE
    /\ ClientCalls(<<"other", NULL>>)
    /\ UNCHANGED <<capacity_, next_handle, held, inserted>>

CacheNext ==
    \/ \E key \in Keys : \E charge \in Charges(key) :
          Insert(key, ValueFor(next_handle), charge)
    \/ \E key \in Keys : Lookup(key)
    \/ \E handle \in Handles : Release(handle)
    \/ \E key \in Keys : Erase(key)
    \/ Prune
    \/ Destroy

----------------------------------------------------------------------------
(* util/cache.cc: ShardedLRUCache, sixteen LRUCache shards whose handles   *)
(* are in heap.                                                            *)

kNumShardBits == 4
kNumShards == 16
\* The capacities NewLRUCache is called with.
CacheCapacities == {2, 17}
\* Keys of two shards: "m", "v", "d" (shard 1) and "a" (shard 12).
ShardedKeys == Keys \cup {<<97>>}
Shards == 0..(kNumShards - 1)

\* Shard that selects by the low bits of the hash.
ShardOfLowBits(hash) == hash[1] % kNumShards

\* ShardedLRUCache::Shard(hash): hash >> (32 - kNumShardBits)
ShardOf(hash) == hash[4] \div (2 ^ (8 - kNumShardBits))

\* per_shard as computed with the divisor rounding down.
PerShardRoundedDown(capacity) == capacity \div kNumShards

\* per_shard of ShardedLRUCache::ShardedLRUCache
PerShard(capacity) == (capacity + (kNumShards - 1)) \div kNumShards

\* shard_[i] with the heap, as the helpers of LRUCache take it.
ShardAt(i) ==
    [usage |-> shard_[i].usage, lru |-> shard_[i].lru, in_use |-> shard_[i].in_use,
     table |-> shard_[i].table, heap |-> heap, deleted |-> deleter_calls]

SetShardAt(i, s) ==
    /\ shard_' = [shard_ EXCEPT ![i] = [capacity |-> @.capacity, usage |-> s.usage,
                                        lru |-> s.lru, in_use |-> s.in_use,
                                        table |-> s.table]]
    /\ heap' = s.heap
    /\ deleter_calls' = s.deleted

\* NewLRUCache(capacity)
ShardedStart(capacity) ==
    /\ shard_ = [i \in Shards |->
                    [capacity |-> PerShard(capacity), usage |-> 0, lru |-> <<>>,
                     in_use |-> <<>>,
                     table |-> [length_ |-> 4, elems_ |-> 0, list_ |-> EmptyBuckets(4)]]]
    /\ cache_capacity = capacity
    /\ plain_inserts = TRUE
    /\ called = <<"none", 0>>
    /\ locked = {}

\* ShardedLRUCache::Insert
ShardedInsert(key, value, charge) ==
    /\ next_handle <= MaxHandles
    /\ \E i \in {ShardOf(KeyHash[key])} :
           SetShardAt(i, LRUInsert(ShardAt(i), shard_[i].capacity, next_handle, key,
                                   KeyHash[key], value, charge))
    /\ held' = [held EXCEPT ![next_handle] = 1]
    /\ inserted' = [inserted EXCEPT ![next_handle] = <<key, value>>]
    /\ next_handle' = next_handle + 1
    /\ plain_inserts' = (plain_inserts /\ charge = 1 /\ \A h \in Handles : held[h] = 0)
    /\ called' = <<"keyed", 0>>
    /\ locked' = {ShardOf(KeyHash[key])}
    /\ UNCHANGED <<capacity_, usage_, lru_, in_use_, table_, destroyed, cache_capacity>>
    /\ UNCHANGED <<clientVars, skipVars, memVars, tbVars, btVars, tcVars, fbVars, fnVars>>

\* ShardedLRUCache::Lookup
ShardedLookup(key) ==
    /\ \E i \in {ShardOf(KeyHash[key])} :
       \E e \in {HandleTableLookup(heap, shard_[i].table, key, KeyHash[key])} :
           IF e # NULL
           THEN /\ held[e] < MaxHeld
                /\ SetShardAt(i, Ref(ShardAt(i), e))
                /\ held' = [held EXCEPT ![e] = @ + 1]
           ELSE UNCHANGED <<shard_, heap, deleter_calls, held>>
    /\ plain_inserts' = FALSE
    /\ called' = <<"keyed", 0>>
    /\ locked' = {ShardOf(KeyHash[key])}
    /\ UNCHANGED <<capacity_, usage_, lru_, in_use_, table_, destroyed, cache_capacity,
                   next_handle, inserted>>
    /\ UNCHANGED <<clientVars, skipVars, memVars, tbVars, btVars, tcVars, fbVars, fnVars>>

\* ShardedLRUCache::Release
ShardedRelease(handle) ==
    /\ held[handle] > 0
    /\ \E i \in {ShardOf(heap[handle].hash)} : SetShardAt(i, Unref(ShardAt(i), handle))
    /\ held' = [held EXCEPT ![handle] = @ - 1]
    /\ called' = <<"keyed", 0>>
    /\ locked' = {ShardOf(heap[handle].hash)}
    /\ UNCHANGED <<capacity_, usage_, lru_, in_use_, table_, destroyed, cache_capacity,
                   next_handle, inserted, plain_inserts>>
    /\ UNCHANGED <<clientVars, skipVars, memVars, tbVars, btVars, tcVars, fbVars, fnVars>>

\* ShardedLRUCache::Erase
ShardedErase(key) ==
    /\ \E i \in {ShardOf(KeyHash[key])} :
           SetShardAt(i, RemoveAndFinishErase(ShardAt(i), key, KeyHash[key]))
    /\ plain_inserts' = FALSE
    /\ called' = <<"keyed", 0>>
    /\ locked' = {ShardOf(KeyHash[key])}
    /\ UNCHANGED <<capacity_, usage_, lru_, in_use_, table_, destroyed, cache_capacity,
                   next_handle, held, inserted>>
    /\ UNCHANGED <<clientVars, skipVars, memVars, tbVars, btVars, tcVars, fbVars, fnVars>>

\* The loop of ShardedLRUCache::Prune from shard i on; st is [shards, heap,
\* deleted].
RECURSIVE PruneShards(_, _)
PruneShards(st, i) ==
    IF i >= kNumShards THEN st
    ELSE Bind(PruneLoop([usage |-> st.shards[i].usage, lru |-> st.shards[i].lru,
                         in_use |-> st.shards[i].in_use, table |-> st.shards[i].table,
                         heap |-> st.heap, deleted |-> st.deleted]), LAMBDA s :
         Bind([shards |-> [st.shards EXCEPT ![i] =
                              [capacity |-> @.capacity, usage |-> s.usage,
                               lru |-> s.lru, in_use |-> s.in_use, table |-> s.table]],
               heap |-> s.heap, deleted |-> s.deleted], LAMBDA st1 :
         PruneShards(st1, i + 1)))

\* ShardedLRUCache::Prune
ShardedPrune ==
    /\ \E st \in {PruneShards([shards |-> shard_, heap |-> heap,
                                deleted |-> deleter_calls], 0)} :
           /\ shard_' = st.shards
           /\ heap' = st.heap
           /\ deleter_calls' = st.deleted
           /\ called' = <<"Prune", Cardinality({e \in Handles :
                                                   Cached(heap, e) /\ ~Cached(st.heap, e)})>>
    /\ locked' = Shards
    /\ plain_inserts' = FALSE
    /\ UNCHANGED <<capacity_, usage_, lru_, in_use_, table_, destroyed, cache_capacity,
                   next_handle, held, inserted>>
    /\ UNCHANGED <<clientVars, skipVars, memVars, tbVars, btVars, tcVars, fbVars, fnVars>>

\* ShardedLRUCache::TotalCharge
TotalCharge == SumOver(Shards, [i \in Shards |-> shard_[i].usage])

----------------------------------------------------------------------------
(* util/coding.h and the byte strings of db/memtable.cc.  A byte string is *)
(* a sequence of bytes; a pointer into it is an index.                     *)

\* The eight bytes at ptr: the uint64_t, kept as its bytes.
DecodeFixed64(data, ptr) == SubSeq(data, ptr, ptr + 7)

\* The order of two uint64_t given by their bytes.
RECURSIVE CompareFixed64From(_, _, _)
CompareFixed64From(a, b, i) ==
    IF i = 0 THEN 0
    ELSE IF a[i] # b[i] THEN Sign(a[i] - b[i])
    ELSE CompareFixed64From(a, b, i - 1)

CompareFixed64(a, b) == CompareFixed64From(a, b, 8)

RECURSIVE EncodeVarint32(_)
EncodeVarint32(v) ==
    IF v < 128 THEN <<v>> ELSE <<(v % 128) + 128>> \o EncodeVarint32(v \div 128)

RECURSIVE VarintLength(_)
VarintLength(v) == IF v < 128 THEN 1 ELSE 1 + VarintLength(v \div 128)

\* GetVarint32PtrFallback: at most five bytes, 7 bits each; [ptr, value], or
\* ptr = NULL when the bytes end first.
RECURSIVE GetVarint32PtrFallback(_, _, _, _, _, _)
GetVarint32PtrFallback(data, p, limit, shift, factor, result) ==
    IF shift <= 28 /\ p < limit /\ p <= Len(data)
    THEN IF data[p] >= 128
         THEN GetVarint32PtrFallback(data, p + 1, limit, shift + 7, factor * 128,
                                     result + (data[p] % 128) * factor)
         ELSE [ptr |-> p + 1, value |-> result + data[p] * factor]
    ELSE [ptr |-> NULL, value |-> 0]

GetVarint32Ptr(data, p, limit) ==
    IF p < limit /\ p <= Len(data) /\ data[p] < 128
    THEN [ptr |-> p + 1, value |-> data[p]]
    ELSE GetVarint32PtrFallback(data, p, limit, 0, 1, 0)

\* GetLengthPrefixedSlice(data + p - 1): the slice as [ptr, size].
GetLengthPrefixedSlice(data, p) ==
    LET r == GetVarint32Ptr(data, p, p + 5) IN [ptr |-> r.ptr, size |-> r.value]

SliceBytes(data, slice) == SubSeq(data, slice.ptr, slice.ptr + slice.size - 1)

----------------------------------------------------------------------------
(* db/memtable.cc, with the key format of db/dbformat.h.                   *)

MaxAdds == 3            \* Add calls in one run

kTypeDeletion == 0
kTypeValue == 1
kValueTypeForSeek == 1

UserKeys == << <<97>>, <<97, 98>>, <<98>> >>     \* "a", "ab", "b"
AddedUserKeys == {UserKeys[1], UserKeys[2]}
Sequences == {5, 6, 7}
MemValues == {<<120>>, <<121, 121>>}             \* "x", "yy"
MemHeights == {1, 2}

\* (seq << 8) | t
PackSequenceAndType(seq, t) == seq * 256 + t

\* Bytewise order of two byte strings: memcmp, then the shorter first.
RECURSIVE BytewiseCompareFrom(_, _, _)
BytewiseCompareFrom(a, b, i) ==
    IF i > Len(a) \/ i > Len(b) THEN Sign(Len(a) - Len(b))
    ELSE IF a[i] # b[i] THEN Sign(a[i] - b[i])
    ELSE BytewiseCompareFrom(a, b, i + 1)

BytewiseCompare(a, b) == BytewiseCompareFrom(a, b, 1)

\* InternalKeyComparator::Compare: user keys ascending, then tags descending.
InternalKeyCompare(akey, bkey) ==
    LET r == BytewiseCompare(SubSeq(akey, 1, Len(akey) - 8), SubSeq(bkey, 1, Len(bkey) - 8))
    IN  IF r # 0 THEN r
        ELSE -CompareFixed64(DecodeFixed64(akey, Len(akey) - 7),
                             DecodeFixed64(bkey, Len(bkey) - 7))

\* MemTable::KeyComparator::operator()
KeyComparator(aptr, bptr) ==
    InternalKeyCompare(SliceBytes(aptr, GetLengthPrefixedSlice(aptr, 1)),
                       SliceBytes(bptr, GetLengthPrefixedSlice(bptr, 1)))

\* LookupKey(user_key, sequence)::memtable_key()
MemtableKey(user_key, sequence) ==
    EncodeVarint32(Len(user_key) + 8) \o user_key
    \o EncodeFixed64(PackSequenceAndType(sequence, kValueTypeForSeek))

\* The buffer MemTable::Add fills.
EncodeEntry(seq, type, key, value) ==
    EncodeVarint32(Len(key) + 8) \o key \o EncodeFixed64(PackSequenceAndType(seq, type))
    \o EncodeVarint32(Len(value)) \o value

\* assert(p + val_size == buf + encoded_len)
EncodedLen(key, value) ==
    VarintLength(Len(key) + 8) + Len(key) + 8 + VarintLength(Len(value)) + Len(value)

\* The address of the arena buffer of an entry: one per (user key, tag).
UserKeyIndex(k) == CHOOSE i \in 1..Len(UserKeys) : UserKeys[i] = k
EntrySlot(buf) ==
    LET ikey == SliceBytes(buf, GetLengthPrefixedSlice(buf, 1))
        tag == DecodeFixed64(ikey, Len(ikey) - 7)
    IN  1 + tag[1] + 2 * tag[2] + 512 * UserKeyIndex(SubSeq(ikey, 1, Len(ikey) - 8))

----------------------------------------------------------------------------
(* db/skiplist.h.  A node is named by its address; addresses are opaque, so *)
(* the node of a key is given the address KeySlot(key).                      *)

kMaxHeight == 12
MaxKeys == 3            \* the keys 1..MaxKeys are inserted
MaxConcHeight == 2      \* node heights tried while readers run

head_ == -1             \* the address of the head node
UNINIT == -2            \* the content of memory that was never written

IntKeys == 1..MaxKeys
Readers == {"r1"}

\* The comparators a list is instantiated with: integers in their order, and
\* the KeyComparator of the memtable.
Compare(cmp, a, b) == IF cmp = "uint64" THEN Sign(a - b) ELSE KeyComparator(a, b)

KeySlot(cmp, key) == IF cmp = "uint64" THEN key ELSE EntrySlot(key)

NoNode == [key |-> 0, height |-> 0, next_ |-> <<>>]

\* NewNode: the links are not initialised by the constructor.
NewNode(key, height) ==
    [key |-> key, height |-> height, next_ |-> [i \in 0..(height - 1) |-> UNINIT]]

\* The list as one value: L.node is the memory the readers see, L.relaxed the
\* writer's relaxed stores that have not reached it.
List == [compare |-> compare_, node |-> node, max_height |-> max_height_,
         relaxed |-> relaxed]

\* Node::Next, an acquire load by a reader.
Next(L, x, n) == L.node[x].next_[n]

\* The memory as the writer sees it: its own stores included.
RECURSIVE ApplyStores(_, _)
ApplyStores(mem, stores) ==
    IF stores = <<>> THEN mem
    ELSE ApplyStores([mem EXCEPT ![Head(stores).node].next_[Head(stores).level] =
                                     Head(stores).value],
                     Tail(stores))

WriterView(L) == [L EXCEPT !.node = ApplyStores(L.node, L.relaxed), !.relaxed = <<>>]

\* Node::NoBarrier_Next by the writer
NoBarrier_Next(L, x, n) == WriterView(L).node[x].next_[n]

\* Node::NoBarrier_SetNext: a relaxed store, visible to the readers at some
\* later time, at the latest with the writer's next release store.
NoBarrier_SetNext(L, x, n, v) ==
    [L EXCEPT !.relaxed = Append(@, [node |-> x, level |-> n, value |-> v])]

\* Node::SetNext with a relaxed store: what went before is not published.
SetNextRelaxed(L, x, n, v) == [L EXCEPT !.node[x].next_[n] = v]

\* Node::SetNext: a release store, publishing every store that went before.
SetNext(L, x, n, v) ==
    [L EXCEPT !.node = [ApplyStores(L.node, L.relaxed) EXCEPT ![x].next_[n] = v],
              !.relaxed = <<>>]

\* KeyIsAfterNode with <= in place of <.
KeyIsAfterOrAtNode(L, key, n) ==
    n # NULL /\ Compare(L.compare, L.node[n].key, key) <= 0

KeyIsAfterNode(L, key, n) ==
    n # NULL /\ Compare(L.compare, L.node[n].key, key) < 0

\* FindGreaterOrEqual from node x at the given level; returns [node, prev].
RECURSIVE FindGreaterOrEqualFrom(_, _, _, _, _)
FindGreaterOrEqualFrom(L, key, x, level, prev) ==
    LET next == Next(L, x, level)
    IN  IF KeyIsAfterNode(L, key, next)
        THEN FindGreaterOrEqualFrom(L, key, next, level, prev)
        ELSE LET prev1 == [prev EXCEPT ![level] = x]
             IN  IF level = 0
                 THEN [node |-> next, prev |-> prev1]
                 ELSE FindGreaterOrEqualFrom(L, key, x, level - 1, prev1)

FindGreaterOrEqual(L, key) ==
    FindGreaterOrEqualFrom(L, key, head_, L.max_height - 1,
                           [i \in 0..(kMaxHeight - 1) |-> UNINIT])

Equal(L, a, b) == Compare(L.compare, a, b) = 0

Contains(L, key) ==
    LET x == FindGreaterOrEqual(L, key).node
    IN  x # NULL /\ Equal(L, key, L.node[x].key)

\* The keys met by SeekToFirst followed by Next until the iterator is not Valid.
RECURSIVE IterateFrom(_, _)
IterateFrom(L, n) ==
    IF n = NULL THEN <<>> ELSE <<L.node[n].key>> \o IterateFrom(L, Next(L, n, 0))

Iterate(L) == IterateFrom(L, Next(L, head_, 0))

\* Insert up to the loop over the levels: the search, the height, max_height_
\* and the allocation of the node.  Returns the list and the writer's locals.
\* The writer's loads see its own earlier stores.
InsertPrepare(L, key, height) ==
    LET found == FindGreaterOrEqual(WriterView(L), key)
        x == KeySlot(L.compare, key)
        prev == [i \in 0..(kMaxHeight - 1) |->
                    IF height > L.max_height /\ i >= L.max_height /\ i < height
                    THEN head_ ELSE found.prev[i]]
    IN  [list |-> [L EXCEPT !.max_height = IF height > @ THEN height ELSE @,
                            !.node = [n \in DOMAIN L.node \cup {x} |->
                                         IF n = x THEN NewNode(key, height)
                                         ELSE L.node[n]]],
         locals |-> [pc |-> "init", key |-> key, x |-> x, height |-> height,
                     prev |-> prev, i |-> 0, was |-> L.max_height]]

\* The loop of Insert with a new node that gets no successor.
InsertStoreNoSuccessor(L, w) ==
    IF w.pc = "init"
    THEN [list |-> NoBarrier_SetNext(L, w.x, w.i, NULL),
          locals |-> [w EXCEPT !.pc = "publish"]]
    ELSE [list |-> SetNext(L, w.prev[w.i], w.i, w.x),
          locals |-> [w EXCEPT !.pc = "init", !.i = @ + 1]]

\* The loop of Insert run from the highest level of the node down.
InsertStoreTopDown(L, w) ==
    IF w.pc = "init"
    THEN [list |-> NoBarrier_SetNext(L, w.x, w.height - 1 - w.i,
                       NoBarrier_Next(L, w.prev[w.height - 1 - w.i], w.height - 1 - w.i)),
          locals |-> [w EXCEPT !.pc = "publish"]]
    ELSE [list |-> SetNext(L, w.prev[w.height - 1 - w.i], w.height - 1 - w.i, w.x),
          locals |-> [w EXCEPT !.pc = "init", !.i = @ + 1]]

\* One store of the loop of Insert: x->NoBarrier_SetNext(i, ...) when pc is
\* "init", prev[i]->SetNext(i, x) when it is "publish".
InsertStore(L, w) ==
    IF w.pc = "init"
    THEN [list |-> NoBarrier_SetNext(L, w.x, w.i, NoBarrier_Next(L, w.prev[w.i], w.i)),
          locals |-> [w EXCEPT !.pc = "publish"]]
    ELSE [list |-> SetNext(L, w.prev[w.i], w.i, w.x),
          locals |-> [w EXCEPT !.pc = "init", !.i = @ + 1]]

RECURSIVE InsertLoop(_, _)
InsertLoop(L, w) ==
    IF w.i < w.height
    THEN LET r == InsertStore(L, w) IN InsertLoop(r.list, r.locals)
    ELSE L

\* SkipList::Insert as a whole.
SkipListInsert(L, key, height) ==
    LET p == InsertPrepare(L, key, height) IN InsertLoop(p.list, p.locals)

SetList(L) ==
    /\ node' = L.node
    /\ max_height_' = L.max_height
    /\ relaxed' = L.relaxed
    /\ UNCHANGED compare_

WriterIdle == [pc |-> "idle"]
ReaderIdle ==
    [pc |-> "idle", node_ |-> NULL, seen |-> <<>>, before |-> {}, target |-> 0,
     level |-> 0, height |-> 0]

\* SkipList::SkipList
SkipListStart(cmp, readers) ==
    /\ compare_ = cmp
    /\ node = [n \in {head_} |->
                  [key |-> 0, height |-> kMaxHeight,
                   next_ |-> [i \in 0..(kMaxHeight - 1) |-> NULL]]]
    /\ max_height_ = 1
    /\ relaxed = <<>>
    /\ writer = WriterIdle
    /\ reader = [r \in readers |-> ReaderIdle]
    /\ completed = {}
    /\ racers = <<>>

Allocated(n) == n \in DOMAIN node

\* Insert(key) with no other thread running.
SeqInsert(key, height) ==
    /\ writer.pc = "idle"
    /\ key \notin completed
    /\ SetList(SkipListInsert(List, key, height))
    /\ completed' = completed \cup {key}
    /\ UNCHANGED <<writer, reader, racers>>
    /\ UNCHANGED <<cacheVars, memVars, tbVars, btVars, tcVars, fbVars, clientVars, shardVars, fnVars>>

\* The writer thread enters Insert(key): everything before the loop.
WriterBegin(key, height) ==
    /\ writer.pc = "idle"
    /\ key \notin completed
    /\ LET p == InsertPrepare(List, key, height)
       IN  /\ SetList(p.list)
           /\ writer' = p.locals
    /\ UNCHANGED <<reader, completed, racers>>
    /\ UNCHANGED <<cacheVars, memVars, tbVars, btVars, tcVars, fbVars, clientVars, shardVars, fnVars>>

\* The writer thread executes the next store of the loop, and returns after
\* the last one.
WriterStore ==
    /\ writer.pc \in {"init", "publish"}
    /\ LET r == InsertStore(List, writer)
       IN  /\ SetList(r.list)
           /\ IF r.locals.i = r.locals.height
              THEN /\ writer' = WriterIdle
                   /\ completed' = completed \cup {writer.key}
              ELSE /\ writer' = r.locals
                   /\ UNCHANGED completed
    /\ UNCHANGED <<reader, racers>>
    /\ UNCHANGED <<cacheVars, memVars, tbVars, btVars, tcVars, fbVars, clientVars, shardVars, fnVars>>

\* A relaxed store of the writer reaches the memory the readers see.
RelaxedStoreVisible ==
    /\ relaxed # <<>>
    /\ \E k \in 1..Len(relaxed) :
          /\ node' = ApplyStores(node, <<relaxed[k]>>)
          /\ relaxed' = SubSeq(relaxed, 1, k - 1) \o SubSeq(relaxed, k + 1, Len(relaxed))
    /\ UNCHANGED <<compare_, max_height_, writer, reader, completed, racers>>
    /\ UNCHANGED <<cacheVars, memVars, tbVars, btVars, tcVars, fbVars, clientVars, shardVars, fnVars>>

\* The iterator moves to node n, read from a link: the reader looks at key().
\* A link that was never written is not a node: what follows is undefined.
ReaderAt(r, n, seen, before) ==
    IF n = UNINIT
    THEN [ReaderIdle EXCEPT !.pc = "undefined", !.node_ = n, !.seen = seen,
                            !.before = before]
    ELSE IF n = NULL
         THEN [ReaderIdle EXCEPT !.pc = "done", !.node_ = n, !.seen = seen,
                                 !.before = before]
         ELSE [ReaderIdle EXCEPT !.pc = "iterating", !.node_ = n,
                                 !.seen = Append(seen, node[n].key), !.before = before]

\* Iterator::SeekToFirst by a reader thread, starting an iteration.
ReaderSeekToFirst(r) ==
    /\ reader[r].pc \in {"idle", "done", "found"}
    /\ reader' = [reader EXCEPT ![r] = ReaderAt(r, Next(List, head_, 0), <<>>, completed)]
    /\ UNCHANGED <<compare_, node, max_height_, relaxed, writer, completed, racers>>
    /\ UNCHANGED <<cacheVars, memVars, tbVars, btVars, tcVars, fbVars, clientVars, shardVars, fnVars>>

\* Iterator::Next by a reader thread.
ReaderNext(r) ==
    /\ reader[r].pc = "iterating"
    /\ reader' = [reader EXCEPT ![r] =
                      ReaderAt(r, Next(List, reader[r].node_, 0), reader[r].seen,
                               reader[r].before)]
    /\ UNCHANGED <<compare_, node, max_height_, relaxed, writer, completed, racers>>
    /\ UNCHANGED <<cacheVars, memVars, tbVars, btVars, tcVars, fbVars, clientVars, shardVars, fnVars>>

\* GetMaxHeight by a reader, a relaxed load: the value in memory or, while
\* the Insert that stored it has not returned, the value before it.
GetMaxHeightLoads ==
    {max_height_} \cup (IF writer.pc # "idle" THEN {writer.was} ELSE {})

\* One turn of the loop of FindGreaterOrEqual that returns at once when the
\* key is not after the next node, whatever the level.
FindGreaterOrEqualStepNoDescent(L, it) ==
    Bind(Next(L, it.node_, it.level), LAMBDA next :
        IF next = UNINIT THEN [it EXCEPT !.pc = "undefined", !.node_ = next]
        ELSE IF KeyIsAfterNode(L, it.target, next) THEN [it EXCEPT !.node_ = next]
        ELSE [it EXCEPT !.pc = "found", !.node_ = next])

\* One turn of the loop of FindGreaterOrEqual(key, nullptr) in a reader: x
\* is it.node_, the load of x->Next(level) is an acquire load.
FindGreaterOrEqualStep(L, it) ==
    Bind(Next(L, it.node_, it.level), LAMBDA next :
        IF next = UNINIT THEN [it EXCEPT !.pc = "undefined", !.node_ = next]
        ELSE IF KeyIsAfterNode(L, it.target, next) THEN [it EXCEPT !.node_ = next]
        ELSE IF it.level = 0 THEN [it EXCEPT !.pc = "found", !.node_ = next]
        ELSE [it EXCEPT !.level = @ - 1])

\* Iterator::Seek(target) by a reader thread: FindGreaterOrEqual up to the
\* load of max_height_.
ReaderSeek(r, target) ==
    /\ reader[r].pc \in {"idle", "done", "found"}
    /\ \E height \in GetMaxHeightLoads :
           reader' = [reader EXCEPT ![r] =
                         [ReaderIdle EXCEPT !.pc = "seeking", !.node_ = head_,
                                            !.before = completed, !.target = target,
                                            !.level = height - 1, !.height = height]]
    /\ UNCHANGED <<compare_, node, max_height_, relaxed, writer, completed, racers>>
    /\ UNCHANGED <<cacheVars, memVars, tbVars, btVars, tcVars, fbVars, clientVars, shardVars, fnVars>>

\* The next turn of the loop of FindGreaterOrEqual in a reader thread.
ReaderSeekStep(r) ==
    /\ reader[r].pc = "seeking"
    /\ reader' = [reader EXCEPT ![r] = FindGreaterOrEqualStep(List, reader[r])]
    /\ UNCHANGED <<compare_, node, max_height_, relaxed, writer, completed, racers>>
    /\ UNCHANGED <<cacheVars, memVars, tbVars, btVars, tcVars, fbVars, clientVars, shardVars, fnVars>>

\* Threads that call Insert with no synchronisation between them, one call
\* each.  Their steps interleave; every load sees the stores made so far.
RaceThreads == {1, 2}

\* A thread enters Insert(key): everything before the loop.
RaceBegin(t, key, height) ==
    /\ t \notin DOMAIN racers
    /\ \A u \in DOMAIN racers : racers[u].key # key
    /\ \E p \in {InsertPrepare(List, key, height)} :
           /\ SetList(p.list)
           /\ racers' = [u \in DOMAIN racers \cup {t} |->
                             IF u = t
                             THEN [w |-> p.locals, key |-> key, before |-> completed,
                                   done |-> FALSE]
                             ELSE racers[u]]
    /\ UNCHANGED <<writer, reader, completed>>
    /\ UNCHANGED <<cacheVars, memVars, tbVars, btVars, tcVars, fbVars, clientVars, shardVars, fnVars>>

\* A thread executes the next store of the loop of its Insert, and returns
\* after the last one.
RaceStore(t) ==
    /\ t \in DOMAIN racers
    /\ ~racers[t].done
    /\ \E r \in {InsertStore(List, racers[t].w)} :
           /\ SetList(r.list)
           /\ IF r.locals.i = r.locals.height
              THEN /\ racers' = [racers EXCEPT ![t].w = r.locals, ![t].done = TRUE]
                   /\ completed' = completed \cup {racers[t].key}
              ELSE /\ racers' = [racers EXCEPT ![t].w = r.locals]
                   /\ UNCHANGED completed
    /\ UNCHANGED <<writer, reader>>
    /\ UNCHANGED <<cacheVars, memVars, tbVars, btVars, tcVars, fbVars, clientVars, shardVars, fnVars>>

\* MemTable::Get with a tag switch that takes every entry for a value.
MemTableGetNoDeletion(L, user_key, sequence) ==
    LET x == FindGreaterOrEqual(L, MemtableKey(user_key, sequence)).node
    IN  IF x # NULL
        THEN LET entry == L.node[x].key
                 k == GetVarint32Ptr(entry, 1, 6)
             IN  IF BytewiseCompare(SubSeq(entry, k.ptr, k.ptr + k.value - 9), user_key) = 0
                 THEN [ret |-> TRUE, status |-> "OK",
                       value |-> SliceBytes(entry,
                                    GetLengthPrefixedSlice(entry, k.ptr + k.value))]
                 ELSE [ret |-> FALSE, status |-> "OK", value |-> <<>>]
        ELSE [ret |-> FALSE, status |-> "OK", value |-> <<>>]

\* MemTable::Get(LookupKey(user_key, sequence), &value, &s): the returned
\* bool, *s and *value.
MemTableGet(L, user_key, sequence) ==
    LET x == FindGreaterOrEqual(L, MemtableKey(user_key, sequence)).node
    IN  IF x # NULL
        THEN LET entry == L.node[x].key
                 k == GetVarint32Ptr(entry, 1, 6)
                 tag == DecodeFixed64(entry, k.ptr + k.value - 8)
             IN  IF BytewiseCompare(SubSeq(entry, k.ptr, k.ptr + k.value - 9), user_key) = 0
                 THEN IF tag[1] = kTypeValue
                      THEN [ret |-> TRUE, status |-> "OK",
                            value |-> SliceBytes(entry,
                                         GetLengthPrefixedSlice(entry, k.ptr + k.value))]
                      ELSE IF tag[1] = kTypeDeletion
                           THEN [ret |-> TRUE, status |-> "NotFound", value |-> <<>>]
                           ELSE [ret |-> FALSE, status |-> "OK", value |-> <<>>]
                 ELSE [ret |-> FALSE, status |-> "OK", value |-> <<>>]
        ELSE [ret |-> FALSE, status |-> "OK", value |-> <<>>]

\* MemTable::Add
MemTableAdd(s, type, key, value, height) ==
    /\ Cardinality(added) < MaxAdds
    /\ ~\E e \in added : e.s = s /\ e.type = type /\ e.key = key
    /\ LET buf == EncodeEntry(s, type, key, value)
       IN  /\ Len(buf) = EncodedLen(key, value)
           /\ SetList(SkipListInsert(List, buf, height))
           /\ completed' = completed \cup {buf}
    /\ added' = added \cup {[s |-> s, type |-> type, key |-> key, value |-> value]}
    /\ UNCHANGED <<writer, reader, racers>>
    /\ UNCHANGED <<cacheVars, tbVars, btVars, tcVars, fbVars, clientVars, shardVars, fnVars>>

----------------------------------------------------------------------------
(* table/block_builder.h: the builder of one block.  A block under         *)
(* construction is [buffer, restarts, counter, finished, last_key].        *)

\* EncodeFixed32 / DecodeFixed32 of a value below 2^31
EncodeFixed32(value) ==
    <<value % 256, (value \div 256) % 256, (value \div 65536) % 256,
      (value \div 16777216) % 256>>

DecodeFixed32(data, ptr) ==
    data[ptr] + 256 * data[ptr + 1] + 65536 * data[ptr + 2] + 16777216 * data[ptr + 3]

RECURSIVE EncodeVarint64(_)
EncodeVarint64(v) ==
    IF v < 128 THEN <<v>> ELSE <<(v % 128) + 128>> \o EncodeVarint64(v \div 128)

\* BlockBuilder::BlockBuilder and BlockBuilder::Reset
NewBlockBuilder ==
    [buffer |-> <<>>, restarts |-> <<0>>, counter |-> 0, finished |-> FALSE,
     last_key |-> <<>>]

RECURSIVE SharedPrefixFrom(_, _, _)
SharedPrefixFrom(a, b, n) ==
    IF n < Len(a) /\ n < Len(b) /\ a[n + 1] = b[n + 1]
    THEN SharedPrefixFrom(a, b, n + 1) ELSE n

\* BlockBuilder::Add
BlockBuilderAdd(b, block_restart_interval, key, value) ==
    LET restart == b.counter >= block_restart_interval
        shared == IF restart THEN 0 ELSE SharedPrefixFrom(b.last_key, key, 0)
        non_shared == Len(key) - shared
    IN  [b EXCEPT
           !.restarts = IF restart THEN Append(@, Len(b.buffer)) ELSE @,
           !.counter = IF restart THEN 1 ELSE @ + 1,
           !.buffer = @ \o EncodeVarint32(shared) \o EncodeVarint32(non_shared)
                        \o EncodeVarint32(Len(value))
                        \o SubSeq(key, shared + 1, Len(key)) \o value,
           !.last_key = key]

RECURSIVE EncodeRestarts(_, _)
EncodeRestarts(restarts, i) ==
    IF i > Len(restarts) THEN <<>>
    ELSE EncodeFixed32(restarts[i]) \o EncodeRestarts(restarts, i + 1)

\* BlockBuilder::Finish
BlockBuilderFinish(b) ==
    [b EXCEPT !.buffer = @ \o EncodeRestarts(b.restarts, 1)
                           \o EncodeFixed32(Len(b.restarts)),
              !.finished = TRUE]

\* BlockBuilder::CurrentSizeEstimate
CurrentSizeEstimate(b) == Len(b.buffer) + Len(b.restarts) * 4 + 4

\* BlockBuilder::empty
BlockBuilderEmpty(b) == b.buffer = <<>>

----------------------------------------------------------------------------
(* table/filter_block.cc: FilterBlockBuilder, [policy, keys, result,       *)
(* filter_offsets]; keys holds the keys of keys_ that start_ delimits.     *)

kFilterBaseLg == 11
kFilterBase == 2048

\* The filter policies a builder is given: pointers to a policy that keeps
\* the hash of every key.
FilterPolicies == {1}
\* FilterPolicy::Name: "hash"
PolicyName(policy) == <<104, 97, 115, 104>>

\* FilterPolicy::CreateFilter of the policy in use: the hash of every key
\* (policy 2: the number of keys).
RECURSIVE CreateFilter(_, _)
CreateFilter(policy, keys) ==
    IF keys = <<>> THEN <<>>
    ELSE IF policy = 2 THEN <<Len(keys)>>
    ELSE Hash(Head(keys), U32(1)) \o CreateFilter(policy, Tail(keys))

NewFilterBlockBuilder(policy) ==
    [policy |-> policy, keys |-> <<>>, result |-> <<>>, filter_offsets |-> <<>>]

\* filter_block == nullptr
NoFilterBlock == NewFilterBlockBuilder(NULL)

\* GenerateFilter that emits an empty filter for the keys it was given.
GenerateFilterWithoutKeys(f) ==
    [f EXCEPT !.filter_offsets = Append(@, Len(f.result)), !.keys = <<>>]

\* FilterBlockBuilder::GenerateFilter
GenerateFilter(f) ==
    IF f.keys = <<>>
    THEN [f EXCEPT !.filter_offsets = Append(@, Len(f.result))]
    ELSE [f EXCEPT !.filter_offsets = Append(@, Len(f.result)),
                   !.result = @ \o CreateFilter(f.policy, f.keys),
                   !.keys = <<>>]

\* StartBlock with "if" in place of "while": at most one filter a call.
FilterStartBlockOnce(f, block_offset) ==
    IF block_offset \div kFilterBase > Len(f.filter_offsets)
    THEN GenerateFilter(f)
    ELSE f

\* FilterBlockBuilder::StartBlock
RECURSIVE FilterStartBlock(_, _)
FilterStartBlock(f, block_offset) ==
    IF block_offset \div kFilterBase > Len(f.filter_offsets)
    THEN FilterStartBlock(GenerateFilter(f), block_offset)
    ELSE f

\* FilterBlockBuilder::AddKey
FilterAddKey(f, key) == [f EXCEPT !.keys = Append(@, key)]

\* FilterBlockBuilder::Finish: the builder afterwards; result is the block.
FilterFinish(f) ==
    LET g == IF f.keys # <<>> THEN GenerateFilter(f) ELSE f
    IN  [g EXCEPT !.result = @ \o EncodeRestarts(g.filter_offsets, 1)
                               \o EncodeFixed32(Len(g.result)) \o <<kFilterBaseLg>>]

----------------------------------------------------------------------------
(* table/table_builder.cc.  What is appended to the file is a sequence of  *)
(* slices [form, bytes, size]: "raw" bytes as they are; the "snappy" form  *)
(* of bytes, of the size the compressor produced; a block "trailer", of    *)
(* which bytes holds the type byte (the checksum is not modelled).         *)

kNoCompression == 0
kSnappyCompression == 1
kBlockTrailerSize == 5
kEncodedLength == 48
kTableMagicNumber == <<87, 251, 128, 139, 36, 117, 71, 219>>
FlushFileCalls == 3         \* file calls of one Flush, at most
FinishFileCalls == 10       \* file calls of one Finish, at most

TableKeys == {<<97>>, <<97, 98>>, <<98>>}       \* "a" "ab" "b"
TableValues == {<<120>>}
BlockSizes == {1, 30}
BlockRestartIntervals == {2}
Compressions == {kNoCompression, kSnappyCompression}
Comparators == {"bytewise", "reverse"}
SnappyOutcomes == {"unsupported", "saves", "barely"}

AllOptions ==
    [comparator : Comparators, block_size : BlockSizes,
     block_restart_interval : BlockRestartIntervals,
     compression : Compressions, filter_policy : FilterPolicies \cup {NULL}]

RawSlice(bytes) == [form |-> "raw", bytes |-> bytes, size |-> Len(bytes)]
TrailerSlice(type) == [form |-> "trailer", bytes |-> <<type>>, size |-> kBlockTrailerSize]

\* port::Snappy_Compress: whether it is supported, and the size it produces.
Snappy_Compress(raw, outcome) ==
    [ok |-> outcome # "unsupported",
     compressed |-> [form |-> "snappy", bytes |-> raw,
                     size |-> IF outcome = "saves"
                              THEN Max(0, Len(raw) - (Len(raw) \div 8) - 1)
                              ELSE Len(raw) - (Len(raw) \div 8)]]

\* Comparator::Compare of options.comparator
ComparatorCompare(a, b) == BytewiseCompare(a, b)

\* Comparator::FindShortestSeparator(start, limit): what *start may become,
\* any string in [start, limit).
FindShortestSeparator(start, limit) ==
    {s \in TableKeys : ComparatorCompare(start, s) <= 0 /\ ComparatorCompare(s, limit) < 0}
    \cup {start}

\* Comparator::FindShortSuccessor(key): what *key may become, any string >= key.
FindShortSuccessor(key) ==
    {s \in TableKeys : ComparatorCompare(key, s) <= 0} \cup {key}

\* BlockHandle::EncodeTo
EncodeHandle(handle) == EncodeVarint64(handle.offset) \o EncodeVarint64(handle.size)

\* BlockHandle::BlockHandle: offset and size ~0, written here as -1.
NoBlockHandle == [offset |-> -1, size |-> -1]

\* Footer::EncodeTo
FooterEncode(metaindex_handle, index_handle) ==
    LET handles == EncodeHandle(metaindex_handle) \o EncodeHandle(index_handle)
    IN  handles \o [i \in 1..(kEncodedLength - 8 - Len(handles)) |-> 0]
        \o kTableMagicNumber

\* The Rep during one operation: env.calls counts the calls the operation
\* has made on the file, of which call number env.fail returns an error;
\* env.snappy is what the compressor does.
Rep(env) ==
    [options |-> options, index_block_options |-> index_block_options,
     file |-> file, offset |-> offset, status |-> status,
     data_block |-> data_block, index_block |-> index_block,
     last_key |-> last_key, num_entries |-> num_entries, closed |-> closed,
     filter_block |-> filter_block, pending_index_entry |-> pending_index_entry,
     pending_handle |-> pending_handle, calls |-> 0, fail |-> env.fail,
     snappy |-> env.snappy]

\* The environments of an operation that makes at most n calls on the file;
\* the compressor is looked at only when compression is asked for.
Envs(n) ==
    {env \in [fail : 0..n, snappy : SnappyOutcomes] :
        options.compression = kNoCompression => env.snappy = "unsupported"}

ok(r) == r.status = "OK"

\* r->status = r->file->Append(data)
FileAppend(r, data) ==
    IF r.calls + 1 = r.fail
    THEN [r EXCEPT !.calls = @ + 1, !.status = "IOError"]
    ELSE [r EXCEPT !.calls = @ + 1, !.status = "OK", !.file = Append(@, data)]

\* r->status = r->file->Flush()
FileFlush(r) ==
    IF r.calls + 1 = r.fail
    THEN [r EXCEPT !.calls = @ + 1, !.status = "IOError"]
    ELSE [r EXCEPT !.calls = @ + 1, !.status = "OK"]

\* WriteRawBlock that leaves the trailer out of offset.
WriteRawBlockOffsetOfContents(r, block_contents, type) ==
    Bind(FileAppend(r, block_contents), LAMBDA r1 :
    Bind(IF ok(r1) THEN FileAppend(r1, TrailerSlice(type)) ELSE r1, LAMBDA r2 :
        [rep |-> IF ok(r1) /\ ok(r2)
                 THEN [r2 EXCEPT !.offset = @ + block_contents.size]
                 ELSE r2,
         handle |-> [offset |-> r.offset, size |-> block_contents.size]]))

\* WriteRawBlock without the trailer.
WriteRawBlockNoTrailer(r, block_contents, type) ==
    Bind(FileAppend(r, block_contents), LAMBDA r1 :
        [rep |-> IF ok(r1) THEN [r1 EXCEPT !.offset = @ + block_contents.size] ELSE r1,
         handle |-> [offset |-> r.offset, size |-> block_contents.size]])

\* TableBuilder::WriteRawBlock: the Rep afterwards and *handle.
WriteRawBlock(r, block_contents, type) ==
    Bind(FileAppend(r, block_contents), LAMBDA r1 :
    Bind(IF ok(r1) THEN FileAppend(r1, TrailerSlice(type)) ELSE r1, LAMBDA r2 :
        [rep |-> IF ok(r1) /\ ok(r2)
                 THEN [r2 EXCEPT !.offset = @ + block_contents.size + kBlockTrailerSize]
                 ELSE r2,
         handle |-> [offset |-> r.offset, size |-> block_contents.size]]))

\* WriteBlock without block->Reset(): the block keeps what was written.
WriteBlockWithoutReset(r, block) ==
    Bind(BlockBuilderFinish(block).buffer, LAMBDA raw :
    Bind(Snappy_Compress(raw, r.snappy), LAMBDA snappy :
    Bind(IF /\ r.options.compression = kSnappyCompression
            /\ snappy.ok
            /\ snappy.compressed.size < Len(raw) - (Len(raw) \div 8)
         THEN WriteRawBlock(r, snappy.compressed, kSnappyCompression)
         ELSE WriteRawBlock(r, RawSlice(raw), kNoCompression), LAMBDA w :
        [rep |-> w.rep, handle |-> w.handle, block |-> BlockBuilderFinish(block)])))

\* TableBuilder::WriteBlock: the Rep afterwards, *handle and *block.
\* WriteBlock that stores the compressed form whatever its size.
WriteBlockAnySize(r, block) ==
    Bind(BlockBuilderFinish(block).buffer, LAMBDA raw :
    Bind(Snappy_Compress(raw, r.snappy), LAMBDA snappy :
    Bind(IF /\ r.options.compression = kSnappyCompression
            /\ snappy.ok
         THEN WriteRawBlock(r, snappy.compressed, kSnappyCompression)
         ELSE WriteRawBlock(r, RawSlice(raw), kNoCompression), LAMBDA w :
        [rep |-> w.rep, handle |-> w.handle, block |-> NewBlockBuilder])))

WriteBlock(r, block) ==
    Bind(BlockBuilderFinish(block).buffer, LAMBDA raw :
    Bind(Snappy_Compress(raw, r.snappy), LAMBDA snappy :
    Bind(IF /\ r.options.compression = kSnappyCompression
            /\ snappy.ok
            /\ snappy.compressed.size < Len(raw) - (Len(raw) \div 8)
         THEN WriteRawBlock(r, snappy.compressed, kSnappyCompression)
         ELSE WriteRawBlock(r, RawSlice(raw), kNoCompression), LAMBDA w :
        [rep |-> w.rep, handle |-> w.handle, block |-> NewBlockBuilder])))

\* Flush that forgets the index entry of the block it wrote.
TableBuilderFlushNoIndexEntry(r) ==
    IF ~ok(r) \/ BlockBuilderEmpty(r.data_block) THEN r
    ELSE Bind(WriteBlock(r, r.data_block), LAMBDA w :
         Bind([w.rep EXCEPT !.data_block = w.block, !.pending_handle = w.handle], LAMBDA r1 :
         Bind(IF ok(r1) THEN FileFlush(r1) ELSE r1, LAMBDA r2 :
             IF r2.filter_block # NoFilterBlock
             THEN [r2 EXCEPT !.filter_block = FilterStartBlock(@, r2.offset)]
             ELSE r2)))

\* TableBuilder::Flush
TableBuilderFlush(r) ==
    IF ~ok(r) \/ BlockBuilderEmpty(r.data_block) THEN r
    ELSE Bind(WriteBlock(r, r.data_block), LAMBDA w :
         Bind([w.rep EXCEPT !.data_block = w.block, !.pending_handle = w.handle], LAMBDA r1 :
         Bind(IF ok(r1)
              THEN FileFlush([r1 EXCEPT !.pending_index_entry = TRUE])
              ELSE r1, LAMBDA r2 :
             IF r2.filter_block # NoFilterBlock
             THEN [r2 EXCEPT !.filter_block = FilterStartBlock(@, r2.offset)]
             ELSE r2)))

\* Add that leaves num_entries as it is.
TableBuilderAddUncounted(r, key, value, separator) ==
    IF ~ok(r) THEN r
    ELSE Bind(IF r.pending_index_entry
              THEN [r EXCEPT !.last_key = separator,
                             !.index_block =
                                 BlockBuilderAdd(@, r.index_block_options.block_restart_interval,
                                                 separator, EncodeHandle(r.pending_handle)),
                             !.pending_index_entry = FALSE]
              ELSE r, LAMBDA r1 :
         Bind([r1 EXCEPT !.filter_block = IF @ # NoFilterBlock THEN FilterAddKey(@, key) ELSE @,
                         !.last_key = key,
                         !.data_block =
                             BlockBuilderAdd(@, r.options.block_restart_interval, key, value)],
              LAMBDA r2 :
             IF CurrentSizeEstimate(r2.data_block) >= r2.options.block_size
             THEN TableBuilderFlush(r2)
             ELSE r2))

\* Add without the test of ok() at its head.
TableBuilderAddAfterError(r, key, value, separator) ==
    Bind(IF r.pending_index_entry
         THEN [r EXCEPT !.last_key = separator,
                        !.index_block =
                            BlockBuilderAdd(@, r.index_block_options.block_restart_interval,
                                            separator, EncodeHandle(r.pending_handle)),
                        !.pending_index_entry = FALSE]
         ELSE r, LAMBDA r1 :
    Bind([r1 EXCEPT !.filter_block = IF @ # NoFilterBlock THEN FilterAddKey(@, key) ELSE @,
                    !.last_key = key,
                    !.num_entries = @ + 1,
                    !.data_block =
                        BlockBuilderAdd(@, r.options.block_restart_interval, key, value)],
         LAMBDA r2 :
        IF CurrentSizeEstimate(r2.data_block) >= r2.options.block_size
        THEN TableBuilderFlush(r2)
        ELSE r2))

\* TableBuilder::Add; separator is what FindShortestSeparator makes of
\* last_key when an index entry is pending.
TableBuilderAdd(r, key, value, separator) ==
    IF ~ok(r) THEN r
    ELSE Bind(IF r.pending_index_entry
              THEN [r EXCEPT !.last_key = separator,
                             !.index_block =
                                 BlockBuilderAdd(@, r.index_block_options.block_restart_interval,
                                                 separator, EncodeHandle(r.pending_handle)),
                             !.pending_index_entry = FALSE]
              ELSE r, LAMBDA r1 :
         Bind([r1 EXCEPT !.filter_block = IF @ # NoFilterBlock THEN FilterAddKey(@, key) ELSE @,
                         !.last_key = key,
                         !.num_entries = @ + 1,
                         !.data_block =
                             BlockBuilderAdd(@, r.options.block_restart_interval, key, value)],
              LAMBDA r2 :
             IF CurrentSizeEstimate(r2.data_block) >= r2.options.block_size
             THEN TableBuilderFlush(r2)
             ELSE r2))

\* Finish, "Write filter block"
FinishFilterBlock(r) ==
    IF ok(r) /\ r.filter_block # NoFilterBlock
    THEN Bind(FilterFinish(r.filter_block), LAMBDA f :
         Bind(WriteRawBlock(r, RawSlice(f.result), kNoCompression), LAMBDA w :
             [rep |-> [w.rep EXCEPT !.filter_block = f], handle |-> w.handle]))
    ELSE [rep |-> r, handle |-> NoBlockHandle]

\* Finish, "Write metaindex block".  r->options.filter_policy->Name() with
\* no filter policy in the options is a call through a null pointer.
FinishMetaindexBlock(r, filter_block_handle) ==
    IF ~ok(r) THEN [rep |-> r, handle |-> NoBlockHandle]
    ELSE IF r.filter_block # NoFilterBlock /\ r.options.filter_policy = NULL
    THEN [rep |-> [r EXCEPT !.status = "undefined"], handle |-> NoBlockHandle]
    ELSE Bind(IF r.filter_block # NoFilterBlock
              THEN BlockBuilderAdd(NewBlockBuilder, r.options.block_restart_interval,
                                   <<102, 105, 108, 116, 101, 114, 46>>
                                       \o PolicyName(r.options.filter_policy),
                                   EncodeHandle(filter_block_handle))
              ELSE NewBlockBuilder, LAMBDA meta_index_block :
         Bind(WriteBlock(r, meta_index_block), LAMBDA w :
             [rep |-> w.rep, handle |-> w.handle]))

\* Finish, "Write index block"; successor is what FindShortSuccessor makes of
\* last_key.
FinishIndexBlock(r, successor) ==
    IF ~ok(r) THEN [rep |-> r, handle |-> NoBlockHandle]
    ELSE Bind(IF r.pending_index_entry
              THEN [r EXCEPT !.last_key = successor,
                             !.index_block =
                                 BlockBuilderAdd(@, r.index_block_options.block_restart_interval,
                                                 successor, EncodeHandle(r.pending_handle)),
                             !.pending_index_entry = FALSE]
              ELSE r, LAMBDA r1 :
         Bind(WriteBlock(r1, r1.index_block), LAMBDA w :
             [rep |-> [w.rep EXCEPT !.index_block = w.block], handle |-> w.handle]))

\* Finish, "Write footer"
FinishFooter(r, metaindex_block_handle, index_block_handle) ==
    IF ~ok(r) THEN r
    ELSE Bind(FooterEncode(metaindex_block_handle, index_block_handle), LAMBDA footer_encoding :
         Bind(FileAppend(r, RawSlice(footer_encoding)), LAMBDA r1 :
             IF ok(r1) THEN [r1 EXCEPT !.offset = @ + Len(footer_encoding)] ELSE r1))

\* TableBuilder::Finish
TableBuilderFinish(r, successor) ==
    Bind([TableBuilderFlush(r) EXCEPT !.closed = TRUE], LAMBDA r1 :
    Bind(FinishFilterBlock(r1), LAMBDA filter :
    Bind(FinishMetaindexBlock(filter.rep, filter.handle), LAMBDA metaindex :
    Bind(FinishIndexBlock(metaindex.rep, successor), LAMBDA index :
        FinishFooter(index.rep, metaindex.handle, index.handle)))))

SetRep(r) ==
    /\ options' = r.options
    /\ index_block_options' = r.index_block_options
    /\ file' = r.file
    /\ offset' = r.offset
    /\ status' = r.status
    /\ data_block' = r.data_block
    /\ index_block' = r.index_block
    /\ last_key' = r.last_key
    /\ num_entries' = r.num_entries
    /\ closed' = r.closed
    /\ filter_block' = r.filter_block
    /\ pending_index_entry' = r.pending_index_entry
    /\ pending_handle' = r.pending_handle

\* TableBuilder::TableBuilder(options, file)
TableBuilderStart(opt) ==
    /\ options = opt
    /\ index_block_options = [opt EXCEPT !.block_restart_interval = 1]
    /\ file = <<>>
    /\ offset = 0
    /\ status = "OK"
    /\ data_block = NewBlockBuilder
    /\ index_block = NewBlockBuilder
    /\ last_key = <<>>
    /\ num_entries = 0
    /\ closed = FALSE
    /\ filter_block = IF opt.filter_policy = NULL THEN NoFilterBlock
                      ELSE FilterStartBlock(NewFilterBlockBuilder(opt.filter_policy), 0)
    /\ pending_index_entry = FALSE
    /\ pending_handle = NoBlockHandle
    /\ add_calls = <<>>
    /\ finished = FALSE
    /\ change_call = <<>>

\* Add(key, value).  The caller passes keys in ascending order.
Add(key, value, env) ==
    /\ ~closed /\ status # "undefined"
    /\ add_calls # <<>> =>
           ComparatorCompare(key, add_calls[Len(add_calls)].key) > 0
    /\ status = "OK" /\ num_entries > 0 => ComparatorCompare(key, last_key) > 0
    /\ status = "OK" /\ pending_index_entry => BlockBuilderEmpty(data_block)
    /\ \E separator \in IF status = "OK" /\ pending_index_entry
                        THEN FindShortestSeparator(last_key, key) ELSE {last_key} :
           \E r \in {TableBuilderAdd(Rep(env), key, value, separator)} : SetRep(r)
    /\ add_calls' = Append(add_calls, [key |-> key, value |-> value])
    /\ change_call' = <<>>
    /\ UNCHANGED finished
    /\ UNCHANGED <<cacheVars, skipVars, memVars, btVars, tcVars, fbVars, clientVars, shardVars, fnVars>>

\* Flush()
Flush(env) ==
    /\ ~closed /\ status # "undefined"
    /\ status = "OK" /\ ~BlockBuilderEmpty(data_block) => ~pending_index_entry
    /\ \E r \in {TableBuilderFlush(Rep(env))} : SetRep(r)
    /\ change_call' = <<>>
    /\ UNCHANGED <<add_calls, finished>>
    /\ UNCHANGED <<cacheVars, skipVars, memVars, btVars, tcVars, fbVars, clientVars, shardVars, fnVars>>

\* Finish()
Finish(env) ==
    /\ ~closed /\ status # "undefined"
    /\ \E successor \in FindShortSuccessor(last_key) :
           \E r \in {TableBuilderFinish(Rep(env), successor)} : SetRep(r)
    /\ finished' = TRUE
    /\ change_call' = <<>>
    /\ UNCHANGED add_calls
    /\ UNCHANGED <<cacheVars, skipVars, memVars, btVars, tcVars, fbVars, clientVars, shardVars, fnVars>>

\* Abandon()
Abandon ==
    /\ ~closed /\ status # "undefined"
    /\ closed' = TRUE
    /\ change_call' = <<>>
    /\ UNCHANGED <<options, index_block_options, file, offset, status, data_block,
                   index_block, last_key, num_entries, filter_block,
                   pending_index_entry, pending_handle, add_calls, finished>>
    /\ UNCHANGED <<cacheVars, skipVars, memVars, btVars, tcVars, fbVars, clientVars, shardVars, fnVars>>

\* ChangeOptions(opt): InvalidArgument when the comparator differs.
ChangeOptions(opt) ==
    /\ status # "undefined"
    /\ IF opt.comparator # options.comparator
       THEN /\ change_call' = <<opt, "InvalidArgument">>
            /\ UNCHANGED <<options, index_block_options>>
       ELSE /\ options' = opt
            /\ index_block_options' = [opt EXCEPT !.block_restart_interval = 1]
            /\ change_call' = <<opt, "OK">>
    /\ UNCHANGED <<file, offset, status, data_block, index_block, last_key, num_entries,
                   closed, filter_block, pending_index_entry, pending_handle, add_calls,
                   finished>>
    /\ UNCHANGED <<cacheVars, skipVars, memVars, btVars, tcVars, fbVars, clientVars, shardVars, fnVars>>

----------------------------------------------------------------------------
(* db/filename.cc.  A file name is a byte string; dbname is left out, so   *)
(* that a name function gives "/" followed by the base name.               *)

kLogFile == "kLogFile"
kDBLockFile == "kDBLockFile"
kTableFile == "kTableFile"
kDescriptorFile == "kDescriptorFile"
kCurrentFile == "kCurrentFile"
kTempFile == "kTempFile"
kInfoLogFile == "kInfoLogFile"

IsDigit(c) == c >= 48 /\ c <= 57

\* What "%llu" prints for number.
RECURSIVE Decimal(_)
Decimal(number) ==
    IF number < 10 THEN <<48 + number>>
    ELSE Decimal(number \div 10) \o <<48 + (number % 10)>>

\* What "%06llu" prints: at least 6 digits, zeroes in front.
Decimal06(number) ==
    [i \in 1..(6 - Min(6, Len(Decimal(number)))) |-> 48] \o Decimal(number)

\* MakeFileName(dbname, number, suffix): "/%06llu.%s"
MakeFileName(number, suffix) == <<47>> \o Decimal06(number) \o <<46>> \o suffix

LogFileName(number) == MakeFileName(number, <<108, 111, 103>>)                 \* "log"
TableFileName(number) == MakeFileName(number, <<108, 100, 98>>)                \* "ldb"
SSTTableFileName(number) == MakeFileName(number, <<115, 115, 116>>)            \* "sst"
TempFileName(number) == MakeFileName(number, <<100, 98, 116, 109, 112>>)       \* "dbtmp"
\* "/MANIFEST-%06llu"
DescriptorFileName(number) ==
    <<47, 77, 65, 78, 73, 70, 69, 83, 84, 45>> \o Decimal06(number)
CurrentFileName == <<47, 67, 85, 82, 82, 69, 78, 84>>                          \* "/CURRENT"
LockFileName == <<47, 76, 79, 67, 75>>                                         \* "/LOCK"
InfoLogFileName == <<47, 76, 79, 71>>                                          \* "/LOG"
OldInfoLogFileName == <<47, 76, 79, 71, 46, 111, 108, 100>>                    \* "/LOG.old"

\* Slice::starts_with
StartsWith(s, prefix) ==
    Len(s) >= Len(prefix) /\ SubSeq(s, 1, Len(prefix)) = prefix

\* The digits at the front of in.
RECURSIVE DigitsAtFront(_)
DigitsAtFront(in) ==
    IF in # <<>> /\ IsDigit(Head(in)) THEN <<Head(in)>> \o DigitsAtFront(Tail(in))
    ELSE <<>>

\* The number that the decimal digits ds, read after the value v, stand for.
RECURSIVE DecimalValue(_, _)
DecimalValue(v, ds) ==
    IF ds = <<>> THEN v ELSE DecimalValue(10 * v + (Head(ds) - 48), Tail(ds))

\* ConsumeDecimalNumber(&in, &val) of util/logging.cc: takes the decimal
\* digits at the front of in, whatever the locale; false when there is none.
ConsumeDecimalNumber(in) ==
    [ok |-> DigitsAtFront(in) # <<>>,
     val |-> DecimalValue(0, DigitsAtFront(in)),
     rest |-> SubSeq(in, Len(DigitsAtFront(in)) + 1, Len(in))]

\* ParseFileName that does not look at what follows the number of a
\* MANIFEST name.
ParseFileNameAnyTail(filename, number, type) ==
    IF filename = Tail(CurrentFileName)
    THEN [ok |-> TRUE, number |-> 0, type |-> kCurrentFile]
    ELSE IF filename = Tail(LockFileName)
    THEN [ok |-> TRUE, number |-> 0, type |-> kDBLockFile]
    ELSE IF filename = Tail(InfoLogFileName) \/ filename = Tail(OldInfoLogFileName)
    THEN [ok |-> TRUE, number |-> 0, type |-> kInfoLogFile]
    ELSE IF StartsWith(filename, <<77, 65, 78, 73, 70, 69, 83, 84, 45>>)
    THEN Bind(ConsumeDecimalNumber(SubSeq(filename, 10, Len(filename))), LAMBDA c :
             IF ~c.ok THEN [ok |-> FALSE, number |-> number, type |-> type]
             ELSE [ok |-> TRUE, number |-> c.val, type |-> kDescriptorFile])
    ELSE Bind(ConsumeDecimalNumber(filename), LAMBDA c :
             IF ~c.ok THEN [ok |-> FALSE, number |-> number, type |-> type]
             ELSE IF c.rest = <<46, 108, 111, 103>>
             THEN [ok |-> TRUE, number |-> c.val, type |-> kLogFile]
             ELSE IF c.rest = <<46, 115, 115, 116>> \/ c.rest = <<46, 108, 100, 98>>
             THEN [ok |-> TRUE, number |-> c.val, type |-> kTableFile]
             ELSE IF c.rest = <<46, 100, 98, 116, 109, 112>>
             THEN [ok |-> TRUE, number |-> c.val, type |-> kTempFile]
             ELSE [ok |-> FALSE, number |-> number, type |-> type])

\* ParseFileName(filename, &number, &type): [ok, number, type], with number
\* and type as they were when it returns false.
ParseFileName(filename, number, type) ==
    IF filename = Tail(CurrentFileName)
    THEN [ok |-> TRUE, number |-> 0, type |-> kCurrentFile]
    ELSE IF filename = Tail(LockFileName)
    THEN [ok |-> TRUE, number |-> 0, type |-> kDBLockFile]
    ELSE IF filename = Tail(InfoLogFileName) \/ filename = Tail(OldInfoLogFileName)
    THEN [ok |-> TRUE, number |-> 0, type |-> kInfoLogFile]
    ELSE IF StartsWith(filename, <<77, 65, 78, 73, 70, 69, 83, 84, 45>>)
    THEN Bind(ConsumeDecimalNumber(SubSeq(filename, 10, Len(filename))), LAMBDA c :
             IF ~c.ok THEN [ok |-> FALSE, number |-> number, type |-> type]
             ELSE IF c.rest # <<>> THEN [ok |-> FALSE, number |-> number, type |-> type]
             ELSE [ok |-> TRUE, number |-> c.val, type |-> kDescriptorFile])
    ELSE Bind(ConsumeDecimalNumber(filename), LAMBDA c :
             IF ~c.ok THEN [ok |-> FALSE, number |-> number, type |-> type]
             ELSE IF c.rest = <<46, 108, 111, 103>>
             THEN [ok |-> TRUE, number |-> c.val, type |-> kLogFile]
             ELSE IF c.rest = <<46, 115, 115, 116>> \/ c.rest = <<46, 108, 100, 98>>
             THEN [ok |-> TRUE, number |-> c.val, type |-> kTableFile]
             ELSE IF c.rest = <<46, 100, 98, 116, 109, 112>>
             THEN [ok |-> TRUE, number |-> c.val, type |-> kTempFile]
             ELSE [ok |-> FALSE, number |-> number, type |-> type])

\* The file numbers that names are made for, and the names of a directory
\* that are parsed: a number part, or none, with what follows it.
MadeNumbers == {8, 1234567}
NameMakers == {"LogFileName", "TableFileName", "SSTTableFileName", "TempFileName",
               "DescriptorFileName", "CurrentFileName", "LockFileName",
               "InfoLogFileName", "OldInfoLogFileName"}
NumberParts ==
    {<<>>, <<49>>, <<48, 49>>, <<48, 48, 48, 48, 48, 49>>,
     <<48, 48, 48, 48, 48, 48, 49>>, <<48, 48, 48, 48, 48, 48, 48, 48>>,
     <<49, 97>>, <<97, 49>>}
Extensions ==
    {<<>>, <<46, 108, 111, 103>>, <<46, 115, 115, 116>>, <<46, 108, 100, 98>>,
     <<46, 100, 98, 116, 109, 112>>, <<46, 108, 111, 112>>, <<46, 108, 111, 103, 120>>}
DirectoryNames ==
    {n \o e : n \in NumberParts, e \in Extensions}
    \cup {<<77, 65, 78, 73, 70, 69, 83, 84, 45>> \o n \o e :
              n \in NumberParts, e \in {<<>>, <<120>>}}
    \cup {<<67, 85, 82, 82, 69, 78, 84>>, <<67, 85, 82, 82, 69, 78, 84, 88>>,
          <<76, 79, 67, 75>>, <<76, 79, 67>>, <<76, 79, 71>>, <<76, 79, 71, 120>>,
          <<76, 79, 71, 46, 111, 108, 100>>, <<76, 79, 71, 46, 111, 108>>,
          <<77, 65, 78, 73, 70, 69, 83, 84>>,
          <<88, 77, 65, 78, 73, 70, 69, 83, 84, 45, 51>>}

\* The name that the name function maker gives for number.
MadeName(maker, number) ==
    CASE maker = "LogFileName" -> LogFileName(number)
      [] maker = "TableFileName" -> TableFileName(number)
      [] maker = "SSTTableFileName" -> SSTTableFileName(number)
      [] maker = "TempFileName" -> TempFileName(number)
      [] maker = "DescriptorFileName" -> DescriptorFileName(number)
      [] maker = "CurrentFileName" -> CurrentFileName
      [] maker = "LockFileName" -> LockFileName
      [] maker = "InfoLogFileName" -> InfoLogFileName
      [] maker = "OldInfoLogFileName" -> OldInfoLogFileName

\* No name has been parsed.
FileNameStart ==
    /\ fn_name = <<>>
    /\ fn_made = <<>>
    /\ fn_ok = FALSE
    /\ fn_number = UNINIT
    /\ fn_type = "uninit"
    /\ fn_prev = [name |-> <<>>, ok |-> FALSE, number |-> UNINIT, type |-> "uninit"]

\* uint64_t number; FileType type; ok = ParseFileName(filename, &number, &type)
ParseCall(filename) ==
    /\ fn_prev' = [name |-> fn_name, ok |-> fn_ok, number |-> fn_number, type |-> fn_type]
    /\ fn_name' = filename
    /\ \E p \in {ParseFileName(filename, UNINIT, "uninit")} :
           fn_ok' = p.ok /\ fn_number' = p.number /\ fn_type' = p.type
    /\ UNCHANGED <<cacheVars, clientVars, shardVars, skipVars, memVars, tbVars, btVars, tcVars, fbVars>>

\* The name of a name function, without the "/" after dbname, is parsed.
ParseMadeName(maker, number) ==
    /\ fn_made' = <<maker, number>>
    /\ ParseCall(Tail(MadeName(maker, number)))

\* A name found in the directory is parsed.
ParseDirectoryName(filename) ==
    /\ fn_made' = <<>>
    /\ ParseCall(filename)

----------------------------------------------------------------------------
(* BuildTable, db/builder.cc.                                              *)
(* The input iterator yields its entries in ascending order and then       *)
(* stops, at the end of its source or (iter.error) on an error, which its  *)
(* status() reports from then on.  The calls on the Env, on the file and   *)
(* on the table cache succeed or fail as the step's input says.          *)

\* The keys of the input, ascending in the comparator of the options.
InputKeys == << <<97>>, <<97, 98>>, <<98>> >>
InputValue == <<120>>
MetaNumber == 5
\* What *meta holds in file_size when BuildTable is called.
StaleFileSizes == {0, 77}

\* The subsequence of InputKeys at the positions in S.
RECURSIVE SelectKeys(_, _)
SelectKeys(S, i) ==
    IF i > Len(InputKeys) THEN <<>>
    ELSE (IF i \in S THEN <<InputKeys[i]>> ELSE <<>>) \o SelectKeys(S, i + 1)

InputEntries == {SelectKeys(S, 1) : S \in SUBSET (1..Len(InputKeys))}


\* Iterator::Valid, SeekToFirst, Next, key, status
IterValid(it) == it.pos >= 1 /\ it.pos <= Len(it.entries)
IterSeekToFirst(it) == [it EXCEPT !.pos = 1]
IterNext(it) == [it EXCEPT !.pos = @ + 1]
IterKey(it) == it.entries[it.pos]
IterStatus(it) ==
    IF it.error /\ it.pos > Len(it.entries) THEN "Corruption: input" ELSE "OK"

EnvCall(op, fname) == [op |-> op, fname |-> fname]

\* meta->file_size = 0 without the assignment.
ResetFileSizeForgotten(m) == m

\* meta->file_size = 0
ResetFileSize(m) == [m EXCEPT !.file_size = 0]

\* "Check for input iterator errors"
InputStatus(st, it) == IF IterStatus(it) # "OK" THEN IterStatus(it) ELSE st

\* The test before "Keep it" that keeps the file whatever the status.
KeepItAfterError(st, file_size) == file_size > 0

\* s.ok() && meta->file_size > 0: "Keep it"
KeepIt(st, file_size) == st = "OK" /\ file_size > 0

\* The state when BuildTable is called.
BuildTableStart(entries, error, file_size) ==
    /\ bt_pc = "start"
    /\ iter = [entries |-> entries, pos |-> 0, error |-> error]
    /\ meta = [number |-> MetaNumber, file_size |-> file_size,
               smallest |-> <<>>, largest |-> <<>>]
    /\ bt_s = "OK"
    /\ table_files = {}
    /\ env_calls = <<>>
    /\ bt_ret = "running"
    /\ stored = "unread"

\* Lines 19-35: SeekToFirst and, for an input that is not empty,
\* NewWritableFile, the builder and meta->smallest.
BuildTableBegin(new_file) ==
    /\ bt_pc = "start"
    /\ \E it \in {IterSeekToFirst(iter)} :
        /\ iter' = it
        /\ IF IterValid(it)
           THEN /\ env_calls' = Append(env_calls,
                                       EnvCall("NewWritableFile", TableFileName(meta.number)))
                /\ bt_s' = new_file
                /\ IF new_file # "OK"
                   THEN /\ bt_pc' = "done"
                        /\ bt_ret' = new_file
                        /\ meta' = ResetFileSize(meta)
                        /\ UNCHANGED table_files
                   ELSE /\ bt_pc' = "loop"
                        /\ table_files' = table_files \cup {TableFileName(meta.number)}
                        /\ meta' = [ResetFileSize(meta) EXCEPT !.smallest = IterKey(it)]
                        /\ UNCHANGED bt_ret
           ELSE /\ bt_pc' = "check"
                /\ meta' = ResetFileSize(meta)
                /\ UNCHANGED <<bt_s, table_files, env_calls, bt_ret>>
    /\ UNCHANGED stored
    /\ UNCHANGED <<cacheVars, skipVars, memVars, tbVars, tcVars, fbVars, clientVars, shardVars, fnVars>>

\* Lines 37-41: one turn of the loop, builder->Add and iter->Next.
BuildTableAdd(env) ==
    /\ bt_pc = "loop"
    /\ IterValid(iter)
    /\ \E separator \in IF status = "OK" /\ pending_index_entry
                        THEN FindShortestSeparator(last_key, IterKey(iter))
                        ELSE {last_key} :
           \E r \in {TableBuilderAdd(Rep(env), IterKey(iter), InputValue, separator)} :
               SetRep(r)
    /\ add_calls' = Append(add_calls, [key |-> IterKey(iter), value |-> InputValue])
    /\ meta' = [meta EXCEPT !.largest = IterKey(iter)]
    /\ iter' = IterNext(iter)
    /\ bt_pc' = IF IterValid(IterNext(iter)) THEN "loop" ELSE "finish"
    /\ UNCHANGED <<finished, change_call, bt_s, table_files, env_calls, bt_ret>>
    /\ UNCHANGED stored
    /\ UNCHANGED <<cacheVars, skipVars, memVars, tcVars, fbVars, clientVars, shardVars, fnVars>>

\* Lines 43-50: builder->Finish and meta->file_size.
BuildTableFinish(env) ==
    /\ bt_pc = "finish"
    /\ \E successor \in FindShortSuccessor(last_key) :
           \E r \in {TableBuilderFinish(Rep(env), successor)} :
               /\ SetRep(r)
               /\ bt_s' = r.status
               /\ meta' = IF ok(r) THEN [meta EXCEPT !.file_size = r.offset] ELSE meta
    /\ finished' = TRUE
    /\ bt_pc' = "sync"
    /\ UNCHANGED <<add_calls, change_call, iter, table_files, env_calls, bt_ret>>
    /\ UNCHANGED stored
    /\ UNCHANGED <<cacheVars, skipVars, memVars, tcVars, fbVars, clientVars, shardVars, fnVars>>

\* Lines 52-62: file->Sync and file->Close, each only while bt_s is OK.
BuildTableSyncClose(sync, close) ==
    /\ bt_pc = "sync"
    /\ IF bt_s # "OK"
       THEN UNCHANGED <<bt_s, env_calls>>
       ELSE IF sync # "OK"
       THEN /\ bt_s' = sync
            /\ env_calls' = Append(env_calls, EnvCall("Sync", TableFileName(meta.number)))
       ELSE /\ bt_s' = close
            /\ env_calls' = env_calls
                            \o <<EnvCall("Sync", TableFileName(meta.number)),
                                 EnvCall("Close", TableFileName(meta.number))>>
    /\ bt_pc' = "verify"
    /\ UNCHANGED <<iter, meta, table_files, bt_ret>>
    /\ UNCHANGED stored
    /\ UNCHANGED <<cacheVars, skipVars, memVars, tbVars, tcVars, fbVars, clientVars, shardVars, fnVars>>

\* What a reader finds in the new file after Close.
StoredStates == {"good", "unopenable", "bad block"}

\* The status of the iterator of Table::NewIterator before any positioning
\* call: a data block is read only when the iterator is positioned in it.
UnpositionedStatus(found) == "OK"

\* it->status() for it = table_cache->NewIterator(...): the error iterator
\* of a failed FindTable, else the iterator of the table, not positioned.
NewIteratorStatus(found) ==
    IF found = "unopenable" THEN "Corruption: table" ELSE UnpositionedStatus(found)

\* Lines 64-71: "Verify that the table is usable": the status of an
\* iterator from the table cache, which is then deleted.
BuildTableVerify(found) ==
    /\ bt_pc = "verify"
    /\ IF bt_s # "OK"
       THEN UNCHANGED <<bt_s, env_calls, stored>>
       ELSE /\ bt_s' = NewIteratorStatus(found)
            /\ stored' = found
            /\ env_calls' = Append(env_calls,
                                   EnvCall("NewIterator", TableFileName(meta.number)))
    /\ bt_pc' = "check"
    /\ UNCHANGED <<iter, meta, table_files, bt_ret>>
    /\ UNCHANGED <<cacheVars, skipVars, memVars, tbVars, tcVars, fbVars, clientVars, shardVars, fnVars>>

\* Lines 74-84: the status of the input, keep or remove the file, return.
BuildTableReturn ==
    /\ bt_pc = "check"
    /\ \E st \in {InputStatus(bt_s, iter)} :
        /\ bt_s' = st
        /\ bt_ret' = st
        /\ IF KeepIt(st, meta.file_size)
           THEN UNCHANGED <<table_files, env_calls>>
           ELSE /\ table_files' = table_files \ {TableFileName(meta.number)}
                /\ env_calls' = Append(env_calls,
                                       EnvCall("RemoveFile", TableFileName(meta.number)))
    /\ bt_pc' = "done"
    /\ UNCHANGED <<iter, meta>>
    /\ UNCHANGED stored
    /\ UNCHANGED <<cacheVars, skipVars, memVars, tbVars, tcVars, fbVars, clientVars, shardVars, fnVars>>

----------------------------------------------------------------------------
(* db/table_cache.cc.  The operations of cache_ are those of the shard     *)
(* above, each atomic under its mutex; between the Lookup of FindTable and *)
(* its Insert other threads run.  A file of the Env is "good" (Table::Open *)
(* accepts it), "corrupt" (it does not) or "absent".                       *)

Threads == {1, 2}
\* The capacity of the shard of cache_ (of "entries", what falls to one shard).
TableCacheCapacity == 1
MaxTables == 2          \* tables opened and inserted in one run
FileNames ==
    {TableFileName(n) : n \in FileNumbers} \cup {SSTTableFileName(n) : n \in FileNumbers}
\* The files that change while the table cache is in use: those of table 8.
ChangingFiles == {TableFileName(8), SSTTableFileName(8)}

\* A thread that is in no call.
NoCall ==
    [pc |-> "idle", op |-> "none", file_number |-> 0, handle |-> NULL, s |-> "OK"]

\* env_->NewRandomAccessFile(fname, &file)
NewRandomAccessFile(files, fname) ==
    IF files[fname] = "absent" THEN "IOError" ELSE "OK"

\* Table::Open(options_, file, file_size, &table)
TableOpen(files, fname) ==
    IF files[fname] = "good" THEN "OK" ELSE "Corruption"

\* The opening of FindTable without the second try, under the .sst name.
OpenTableNoRetry(files, file_number) ==
    IF NewRandomAccessFile(files, TableFileName(file_number)) = "OK"
    THEN TableOpen(files, TableFileName(file_number))
    ELSE NewRandomAccessFile(files, TableFileName(file_number))

\* FindTable, lines 64-79: the file under the .ldb name, else under the
\* .sst name, and the table in it; the Status s.
OpenTable(files, file_number) ==
    IF NewRandomAccessFile(files, TableFileName(file_number)) = "OK"
    THEN TableOpen(files, TableFileName(file_number))
    ELSE IF NewRandomAccessFile(files, SSTTableFileName(file_number)) = "OK"
    THEN TableOpen(files, SSTTableFileName(file_number))
    ELSE NewRandomAccessFile(files, TableFileName(file_number))

\* What the caller of FindTable does with a handle: NewIterator hands it to
\* the iterator it returns, Get goes on to InternalGet.
WithHandle(t, op, e) ==
    IF op = "NewIterator"
    THEN /\ iterators' = [iterators EXCEPT ![e] = @ + 1]
         /\ tc_thread' = [tc_thread EXCEPT ![t] = NoCall]
    ELSE /\ tc_thread' = [tc_thread EXCEPT ![t] =
                [pc |-> "get", op |-> op, file_number |-> 0, handle |-> e, s |-> "OK"]]
         /\ UNCHANGED iterators

TableCacheStart ==
    /\ tc_thread = [t \in Threads |-> NoCall]
    /\ tc_files \in [FileNames -> {"absent", "good", "corrupt"}]
    /\ \A fname \in FileNames \ ChangingFiles :
           tc_files[fname] = IF fname \in {TableFileName(n) : n \in FileNumbers} THEN "good"
                             ELSE "absent"
    /\ tc_files[SSTTableFileName(8)] # "corrupt"
    /\ iterators = [h \in Handles |-> 0]
    /\ find_failed = 0
    /\ raced = 0

\* NewIterator or Get is called; FindTable, lines 56-60: cache_->Lookup(key).
\* A hit returns to the caller, a miss goes on to open the file.
FindTableLookup(t, op, file_number) ==
    /\ tc_thread[t].pc = "idle"
    /\ LRUCacheLookup(EncodeFixed64(file_number))
    /\ \E e \in {HandleTableLookup(heap, table_, EncodeFixed64(file_number),
                                   KeyHash[EncodeFixed64(file_number)])} :
           IF e = NULL
           THEN /\ tc_thread' = [tc_thread EXCEPT ![t] =
                       [pc |-> "open", op |-> op, file_number |-> file_number,
                        handle |-> NULL, s |-> "OK"]]
                /\ UNCHANGED iterators
           ELSE WithHandle(t, op, e)
    /\ UNCHANGED <<tc_files, find_failed, raced>>
    /\ UNCHANGED <<skipVars, memVars, tbVars, btVars, fbVars, clientVars, shardVars, fnVars>>

\* FindTable, lines 61-97, after a miss: the file and the table are opened;
\* a failure returns with no handle, a success inserts the TableAndFile.
FindTableOpen(t) ==
    /\ tc_thread[t].pc = "open"
    /\ \E st \in {OpenTable(tc_files, tc_thread[t].file_number)} :
           IF st # "OK"
           THEN /\ tc_thread' = [tc_thread EXCEPT ![t].pc = "failed", ![t].s = st]
                /\ find_failed' = IF find_failed = 0 THEN next_handle ELSE find_failed
                /\ UNCHANGED <<iterators, cacheVars, raced>>
           ELSE /\ next_handle <= MaxTables
                /\ LRUCacheInsert(EncodeFixed64(tc_thread[t].file_number),
                                  ValueFor(next_handle), 1)
                /\ WithHandle(t, tc_thread[t].op, next_handle)
                /\ UNCHANGED find_failed
                /\ \E old \in {HandleTableLookup(heap, table_,
                                       EncodeFixed64(tc_thread[t].file_number),
                                       KeyHash[EncodeFixed64(tc_thread[t].file_number)])} :
                       raced' = IF raced = 0 THEN old ELSE raced
    /\ UNCHANGED tc_files
    /\ UNCHANGED <<skipVars, memVars, tbVars, btVars, fbVars, clientVars, shardVars, fnVars>>

\* FindTable has failed: NewIterator returns NewErrorIterator(s), Get
\* returns s.
FindTableFailed(t) ==
    /\ tc_thread[t].pc = "failed"
    /\ tc_thread' = [tc_thread EXCEPT ![t] = NoCall]
    /\ UNCHANGED <<tc_files, iterators, find_failed, raced>>
    /\ UNCHANGED <<cacheVars, skipVars, memVars, tbVars, btVars, fbVars, clientVars, shardVars, fnVars>>

\* Get, lines 133-139: InternalGet, then cache_->Release(handle) and the
\* return of what InternalGet gave.
TableCacheGetReturn(t) ==
    /\ tc_thread[t].pc = "get"
    /\ LRUCacheRelease(tc_thread[t].handle)
    /\ tc_thread' = [tc_thread EXCEPT ![t] = NoCall]
    /\ UNCHANGED <<tc_files, iterators, find_failed, raced>>
    /\ UNCHANGED <<skipVars, memVars, tbVars, btVars, fbVars, clientVars, shardVars, fnVars>>

\* An iterator of NewIterator is destroyed: its cleanup, UnrefEntry.
UnrefEntry(h) ==
    /\ iterators[h] > 0
    /\ LRUCacheRelease(h)
    /\ iterators' = [iterators EXCEPT ![h] = @ - 1]
    /\ UNCHANGED <<tc_thread, tc_files, find_failed, raced>>
    /\ UNCHANGED <<skipVars, memVars, tbVars, btVars, fbVars, clientVars, shardVars, fnVars>>

\* TableCache::Evict(file_number)
Evict(file_number) ==
    /\ LRUCacheErase(EncodeFixed64(file_number))
    /\ UNCHANGED tcVars
    /\ UNCHANGED <<skipVars, memVars, tbVars, btVars, fbVars, clientVars, shardVars, fnVars>>

\* Outside the table cache a file is written, repaired, damaged or removed.
EnvChangesFile(fname, state) ==
    /\ tc_files[fname] # state
    /\ tc_files' = [tc_files EXCEPT ![fname] = state]
    /\ UNCHANGED <<tc_thread, iterators, find_failed, raced>>
    /\ UNCHANGED <<cacheVars, skipVars, memVars, tbVars, btVars, fbVars, clientVars, shardVars, fnVars>>

----------------------------------------------------------------------------
(* table/filter_block.cc: FilterBlockReader, [policy, data, offset, num,   *)
(* base_lg], and a FilterBlockBuilder used on its own.  data is the block, *)
(* <<>> for data_ == nullptr; offset is offset_ - data_.                   *)

\* Besides the hash policy (1), a policy (2) that keeps the number of keys
\* and lets every key match.
ReaderPolicies == {1, 2}
BlockOffsets == {0, 2047, 2048, 6200}
FilterKeys == {<<97>>, <<98>>}
MaxFilterKeys == 3      \* keys pending in the builder plus keys already recorded

\* The 4-byte words of a filter of the hash policy.
FilterWords(filter) ==
    {SubSeq(filter, 4 * i + 1, 4 * i + 4) : i \in 0..((Len(filter) \div 4) - 1)}

\* FilterPolicy::KeyMayMatch of the policy in use.
PolicyKeyMayMatch(policy, key, filter) ==
    IF policy = 2 THEN TRUE
    ELSE Hash(key, U32(1)) \in FilterWords(filter)

\* FilterBlockReader::FilterBlockReader(policy, contents)
FilterBlockReader(policy, contents) ==
    LET n == Len(contents)
        none == [policy |-> policy, data |-> <<>>, offset |-> 0, num |-> 0,
                 base_lg |-> 0]
    IN  IF n < 5 THEN none
        ELSE IF DecodeFixed32(contents, n - 4) > n - 5
        THEN [none EXCEPT !.base_lg = contents[n]]
        ELSE [policy |-> policy, data |-> contents,
              offset |-> DecodeFixed32(contents, n - 4),
              num |-> (n - 5 - DecodeFixed32(contents, n - 4)) \div 4,
              base_lg |-> contents[n]]

\* block_offset >> base_lg_, of a block_offset below 2^31
FilterIndex(block_offset, base_lg) ==
    IF base_lg >= 31 THEN 0 ELSE block_offset \div (2 ^ base_lg)

\* FilterBlockReader::KeyMayMatch(block_offset, key)
KeyMayMatch(rd, block_offset, key) ==
    LET index == FilterIndex(block_offset, rd.base_lg)
    IN  IF index < rd.num
        THEN LET start == DecodeFixed32(rd.data, rd.offset + index * 4 + 1)
                 limit == DecodeFixed32(rd.data, rd.offset + index * 4 + 5)
             IN  IF start <= limit /\ limit <= rd.offset
                 THEN PolicyKeyMayMatch(rd.policy, key, SubSeq(rd.data, start + 1, limit))
                 ELSE IF start = limit THEN FALSE
                 ELSE TRUE
        ELSE TRUE

\* FilterBlockBuilder::FilterBlockBuilder(policy)
FilterBlockStart(policy) ==
    /\ fb_builder = NewFilterBlockBuilder(policy)
    /\ fb_offset = -1
    /\ fb_keys = {}
    /\ fb_finished = FALSE
    /\ fb_contents = <<>>
    /\ fb_reader = FilterBlockReader(NULL, <<>>)
    /\ fb_call = <<>>

\* StartBlock(block_offset); the offsets come in non-decreasing order.
StartBlock(block_offset) ==
    /\ ~fb_finished
    /\ block_offset >= fb_offset
    /\ fb_builder' = FilterStartBlock(fb_builder, block_offset)
    /\ fb_offset' = block_offset
    /\ UNCHANGED <<fb_keys, fb_finished, fb_contents, fb_reader, fb_call>>
    /\ UNCHANGED <<cacheVars, skipVars, memVars, tbVars, btVars, tcVars, clientVars, shardVars, fnVars>>

\* AddKey(key)
AddKey(key) ==
    /\ ~fb_finished
    /\ Len(fb_builder.keys) + Cardinality(fb_keys) < MaxFilterKeys
    /\ fb_builder' = FilterAddKey(fb_builder, key)
    /\ fb_keys' = IF fb_offset >= 0 THEN fb_keys \cup {<<fb_offset, key>>} ELSE fb_keys
    /\ UNCHANGED <<fb_offset, fb_finished, fb_contents, fb_reader, fb_call>>
    /\ UNCHANGED <<cacheVars, skipVars, memVars, tbVars, btVars, tcVars, clientVars, shardVars, fnVars>>

\* Finish()
FilterBlockFinish ==
    /\ ~fb_finished
    /\ fb_builder' = FilterFinish(fb_builder)
    /\ fb_finished' = TRUE
    /\ UNCHANGED <<fb_offset, fb_keys, fb_contents, fb_reader, fb_call>>
    /\ UNCHANGED <<cacheVars, skipVars, memVars, tbVars, btVars, tcVars, clientVars, shardVars, fnVars>>

\* The contents given to a reader: short ones, and a filter of one key
\* followed by two filter offsets, the offset of the offset array and
\* base_lg, with offsets inside and outside of the block.
ReaderOffsets == {0, 4, 200}
ReaderContents ==
    {<<>>, <<kFilterBaseLg>>, <<4, 0, 0, kFilterBaseLg>>}
    \cup {CreateFilter(1, <<<<97>>>>) \o EncodeFixed32(a) \o EncodeFixed32(b)
               \o EncodeFixed32(w) \o <<kFilterBaseLg>> :
           a \in ReaderOffsets, b \in ReaderOffsets, w \in ReaderOffsets \cup {9}}

\* FilterBlockReader(policy, contents) is constructed.
ReaderOpen(policy, contents) ==
    /\ fb_contents = <<>> /\ fb_call = <<>>
    /\ fb_contents' = contents
    /\ fb_reader' = FilterBlockReader(policy, contents)
    /\ UNCHANGED <<fb_builder, fb_offset, fb_keys, fb_finished, fb_call>>
    /\ UNCHANGED <<cacheVars, skipVars, memVars, tbVars, btVars, tcVars, clientVars, shardVars, fnVars>>

\* KeyMayMatch(block_offset, key) on the reader.
ReaderKeyMayMatch(block_offset, key) ==
    /\ fb_call' = <<block_offset, key, KeyMayMatch(fb_reader, block_offset, key)>>
    /\ UNCHANGED <<fb_builder, fb_offset, fb_keys, fb_finished, fb_contents, fb_reader>>
    /\ UNCHANGED <<cacheVars, skipVars, memVars, tbVars, btVars, tcVars, clientVars, shardVars, fnVars>>

----------------------------------------------------------------------------
(* Specifications: one per component.                                      *)

\* A client that has called nothing.
ClientIdle ==
    /\ last_op = <<"other", NULL>>
    /\ release_order = <<>>

CacheIdle ==
    /\ capacity_ = 0
    /\ usage_ = 0
    /\ lru_ = <<>>
    /\ in_use_ = <<>>
    /\ table_ = [length_ |-> 4, elems_ |-> 0, list_ |-> EmptyBuckets(4)]
    /\ heap = [h \in Handles |-> NoHandle]
    /\ next_handle = 1
    /\ held = [h \in Handles |-> 0]
    /\ inserted = [h \in Handles |-> <<>>]
    /\ deleter_calls = [h \in Handles |-> <<>>]
    /\ destroyed = FALSE

SkipListIdle == SkipListStart("uint64", {})

MemTableIdle == added = {}

\* A table builder that is never used.
TableBuilderIdle ==
    /\ TableBuilderStart([comparator |-> "bytewise", block_size |-> 30,
                          block_restart_interval |-> 2,
                          compression |-> kNoCompression, filter_policy |-> NULL])

\* BuildTable is never called.
BuildTableIdle == BuildTableStart(<<>>, FALSE, 0)

\* A table cache that is never used.
TableCacheIdle ==
    /\ tc_thread = [t \in Threads |-> NoCall]
    /\ tc_files = [fname \in FileNames |-> "absent"]
    /\ iterators = [h \in Handles |-> 0]
    /\ find_failed = 0
    /\ raced = 0

\* A filter block builder that is never used.
FilterBlockIdle == FilterBlockStart(NULL)

\* A sharded cache that is never used.
ShardedIdle == ShardedStart(0)

\* No file name is parsed.
FileNameIdle == FileNameStart

\* The LRU shard.
CacheInit == CacheStart /\ SkipListIdle /\ MemTableIdle /\ TableBuilderIdle /\ BuildTableIdle /\ TableCacheIdle /\ FilterBlockIdle /\ ClientIdle /\ ShardedIdle /\ FileNameIdle
SpecCache == CacheInit /\ [][CacheNext]_vars

\* The skiplist used by one thread.
SkipListInit == CacheIdle /\ SkipListStart("uint64", {}) /\ MemTableIdle /\ TableBuilderIdle /\ BuildTableIdle /\ TableCacheIdle /\ FilterBlockIdle /\ ClientIdle /\ ShardedIdle /\ FileNameIdle
SkipListNext == \E key \in IntKeys, height \in 1..kMaxHeight : SeqInsert(key, height)
SpecSkipList == SkipListInit /\ [][SkipListNext]_vars

\* The skiplist with one writer thread and reader threads.
ConcInit == CacheIdle /\ SkipListStart("uint64", Readers) /\ MemTableIdle /\ TableBuilderIdle /\ BuildTableIdle /\ TableCacheIdle /\ FilterBlockIdle /\ ClientIdle /\ ShardedIdle /\ FileNameIdle
ConcNext ==
    \/ \E key \in IntKeys, height \in 1..MaxConcHeight : WriterBegin(key, height)
    \/ WriterStore
    \/ RelaxedStoreVisible
    \/ \E r \in Readers : ReaderSeekToFirst(r)
    \/ \E r \in Readers : ReaderNext(r)
SpecSkipListConc == ConcInit /\ [][ConcNext]_vars

\* The skiplist with two threads that call Insert without the external
\* synchronisation.
RaceInit == SkipListInit
RaceNext ==
    \/ \E t \in RaceThreads, key \in IntKeys, height \in 1..MaxConcHeight :
           RaceBegin(t, key, height)
    \/ \E t \in RaceThreads : RaceStore(t)
SpecSkipListRace == RaceInit /\ [][RaceNext]_vars

\* The skiplist with one writer thread and reader threads that seek, with
\* nodes of the least and of the greatest height.
SeekHeights == {1, 2, kMaxHeight}
SeekTargets == 0..(MaxKeys + 1)
SeekInit == ConcInit
SeekNext ==
    \/ \E key \in IntKeys, height \in SeekHeights : WriterBegin(key, height)
    \/ WriterStore
    \/ RelaxedStoreVisible
    \/ \E r \in Readers, target \in SeekTargets : ReaderSeek(r, target)
    \/ \E r \in Readers : ReaderSeekStep(r)
SpecSkipListSeek == SeekInit /\ [][SeekNext]_vars

\* The memtable used by one thread.
MemTableInit ==
    CacheIdle /\ SkipListStart("memtable", {}) /\ added = {} /\ TableBuilderIdle /\ BuildTableIdle /\ TableCacheIdle /\ FilterBlockIdle /\ ClientIdle /\ ShardedIdle /\ FileNameIdle
MemTableNext ==
    \E s \in Sequences, key \in AddedUserKeys, height \in MemHeights :
        \/ \E value \in MemValues : MemTableAdd(s, kTypeValue, key, value, height)
        \/ MemTableAdd(s, kTypeDeletion, key, <<>>, height)
SpecMemTable == MemTableInit /\ [][MemTableNext]_vars

\* One table builder, used by one thread, on a file that may fail.
TableBuilderInit ==
    /\ CacheIdle /\ SkipListIdle /\ MemTableIdle /\ BuildTableIdle /\ TableCacheIdle /\ FilterBlockIdle /\ ClientIdle /\ ShardedIdle /\ FileNameIdle
    /\ \E opt \in AllOptions : opt.comparator = "bytewise" /\ TableBuilderStart(opt)
TableBuilderNext ==
    \/ \E key \in TableKeys, value \in TableValues, env \in Envs(FlushFileCalls) :
           Add(key, value, env)
    \/ \E env \in Envs(FlushFileCalls) : Flush(env)
    \/ \E env \in Envs(FinishFileCalls) : Finish(env)
    \/ Abandon
    \/ \E opt \in AllOptions : ChangeOptions(opt)
SpecTableBuilder == TableBuilderInit /\ [][TableBuilderNext]_vars

\* One call of BuildTable, on an Env whose calls may fail.
BuildTableInit ==
    /\ CacheIdle /\ SkipListIdle /\ MemTableIdle /\ TableCacheIdle /\ FilterBlockIdle /\ ClientIdle /\ ShardedIdle /\ FileNameIdle
    /\ \E opt \in AllOptions : opt.comparator = "bytewise" /\ TableBuilderStart(opt)
    /\ \E entries \in InputEntries, error \in BOOLEAN, file_size \in StaleFileSizes :
           BuildTableStart(entries, error, file_size)
BuildTableNext ==
    \/ \E new_file \in {"OK", "IOError: NewWritableFile"} : BuildTableBegin(new_file)
    \/ \E env \in Envs(FlushFileCalls) : BuildTableAdd(env)
    \/ \E env \in Envs(FinishFileCalls) : BuildTableFinish(env)
    \/ \E sync \in {"OK", "IOError: Sync"}, close \in {"OK", "IOError: Close"} :
           BuildTableSyncClose(sync, close)
    \/ \E found \in StoredStates : BuildTableVerify(found)
    \/ BuildTableReturn
SpecBuildTable == BuildTableInit /\ [][BuildTableNext]_vars

\* The table cache, used by two threads, with a shard of one entry.
TableCacheInit ==
    /\ LRUCacheStart(TableCacheCapacity)
    /\ SkipListIdle /\ MemTableIdle /\ TableBuilderIdle /\ BuildTableIdle
    /\ TableCacheStart /\ FilterBlockIdle /\ ClientIdle /\ ShardedIdle /\ FileNameIdle
TableCacheNext ==
    \/ \E t \in Threads, op \in {"NewIterator", "Get"}, file_number \in FileNumbers :
           FindTableLookup(t, op, file_number)
    \/ \E t \in Threads : FindTableOpen(t)
    \/ \E t \in Threads : FindTableFailed(t)
    \/ \E t \in Threads : TableCacheGetReturn(t)
    \/ \E h \in Handles : UnrefEntry(h)
    \/ \E file_number \in FileNumbers : Evict(file_number)
    \/ \E state \in {"absent", "good", "corrupt"} : EnvChangesFile(TableFileName(8), state)
    \/ \E state \in {"absent", "good"} : EnvChangesFile(SSTTableFileName(8), state)
SpecTableCache == TableCacheInit /\ [][TableCacheNext]_vars

\* One filter block builder; its block is read when Finish has returned.
FilterBlockInit ==
    /\ CacheIdle /\ SkipListIdle /\ MemTableIdle /\ TableBuilderIdle /\ BuildTableIdle
    /\ TableCacheIdle /\ ClientIdle /\ ShardedIdle /\ FileNameIdle
    /\ \E policy \in ReaderPolicies : FilterBlockStart(policy)
FilterBlockNext ==
    \/ \E block_offset \in BlockOffsets : StartBlock(block_offset)
    \/ \E key \in FilterKeys : AddKey(key)
    \/ FilterBlockFinish
SpecFilterBlock == FilterBlockInit /\ [][FilterBlockNext]_vars

\* One filter block reader, on contents of any kind.
FilterReaderInit == FilterBlockInit
FilterReaderNext ==
    \/ \E policy \in ReaderPolicies, contents \in ReaderContents :
           ReaderOpen(policy, contents)
    \/ \E block_offset \in BlockOffsets, key \in FilterKeys :
           ReaderKeyMayMatch(block_offset, key)
SpecFilterReader == FilterReaderInit /\ [][FilterReaderNext]_vars

\* The sharded cache, used by one thread.
ShardedInit ==
    /\ CacheIdle /\ ClientIdle /\ SkipListIdle /\ MemTableIdle /\ TableBuilderIdle
    /\ BuildTableIdle /\ TableCacheIdle /\ FilterBlockIdle /\ FileNameIdle
    /\ \E capacity \in CacheCapacities : ShardedStart(capacity)
ShardedNext ==
    \/ \E key \in ShardedKeys : \E charge \in {1} \cup Charges(key) :
          ShardedInsert(key, ValueFor(next_handle), charge)
    \/ \E key \in ShardedKeys : ShardedLookup(key)
    \/ \E handle \in Handles : ShardedRelease(handle)
    \/ \E key \in ShardedKeys : ShardedErase(key)
    \/ ShardedPrune
SpecShardedCache == ShardedInit /\ [][ShardedNext]_vars

\* File names are made and parsed, one after the other.
FileNameInit ==
    /\ CacheIdle /\ ClientIdle /\ SkipListIdle /\ MemTableIdle /\ TableBuilderIdle
    /\ BuildTableIdle /\ TableCacheIdle /\ FilterBlockIdle /\ ShardedIdle
    /\ FileNameStart
FileNameNext ==
    \/ \E maker \in NameMakers, number \in MadeNumbers : ParseMadeName(maker, number)
    \/ \E filename \in DirectoryNames : ParseDirectoryName(filename)
SpecFileName == FileNameInit /\ [][FileNameNext]_vars

----------------------------------------------------------------------------
(* Claims about the LRU shard.                                             *)

OnList(list, h) == \E i \in 1..Len(list) : list[i] = h
NoDuplicates(list) == \A i, j \in 1..Len(list) : list[i] = list[j] => i = j
AllReleased == \A h \in Handles : held[h] = 0

\* C1: between operations, a handle is on in_use_ iff it is in_cache with
\* refs >= 2, on lru_ iff it is in_cache with refs = 1, on neither list iff it
\* is not in_cache, and never on both lists.
C1_ListMembership ==
    ~destroyed =>
        /\ NoDuplicates(in_use_) /\ NoDuplicates(lru_)
        /\ \A h \in Handles :
              /\ OnList(in_use_, h) <=> (heap[h].in_cache /\ heap[h].refs >= 2)
              /\ OnList(lru_, h) <=> (heap[h].in_cache /\ heap[h].refs = 1)
              /\ (~OnList(in_use_, h) /\ ~OnList(lru_, h)) <=> ~heap[h].in_cache
              /\ ~(OnList(in_use_, h) /\ OnList(lru_, h))

\* One handle on each list and a third, displaced or erased, on neither.
C1_Witness ==
    /\ ~destroyed
    /\ \E a, b, c \in Handles :
          /\ OnList(in_use_, a) /\ OnList(lru_, b)
          /\ heap[c].alloc = "live" /\ ~heap[c].in_cache

\* C2 as stated: usage <= capacity whenever no handle has more than one
\* reference.
C2_Original ==
    (~destroyed /\ \A h \in Handles : heap[h].refs <= 1) => usage_ <= capacity_

\* C2 as amended: when an Insert returns, usage <= capacity or the lru_ list
\* is empty (every entry still cached is held by a client).  Release never
\* evicts.
C2_AfterInsert ==
    [][next_handle' # next_handle => (usage_' <= capacity_' \/ lru_' = <<>>)]_vars

\* An Insert has left the shard over capacity, every cached entry being held.
C2_Witness ==
    ~destroyed /\ capacity_ > 0 /\ usage_ > capacity_ /\ lru_ = <<>>
    /\ next_handle > 2

\* C3: the deleter of every inserted entry runs at most once, with the key
\* and value of its Insert, and has run exactly once by the end of the
\* destruction of the cache if every handle was released before.
C3_DeleterOnce ==
    /\ \A h \in Handles :
          /\ Len(deleter_calls[h]) <= 1
          /\ deleter_calls[h] # <<>> => deleter_calls[h][1] = inserted[h]
    /\ (destroyed /\ AllReleased) =>
          \A h \in Handles : h < next_handle => deleter_calls[h] = <<inserted[h]>>

\* The cache destroyed after three inserts, with every handle released.
C3_Witness ==
    destroyed /\ AllReleased /\ next_handle > 3
    /\ \A h \in Handles : h < next_handle => Len(deleter_calls[h]) = 1

\* C4: while a client holds a handle its entry is allocated and its deleter
\* has not run; the deleter has run exactly for the entries whose refs went
\* to 0, and those were not in_cache.
C4_NoDeleteWhileHeld ==
    \A h \in Handles :
        /\ held[h] > 0 => (heap[h].alloc = "live" /\ deleter_calls[h] = <<>>)
        /\ heap[h].alloc = "live" => (heap[h].refs > 0 /\ deleter_calls[h] = <<>>)
        /\ heap[h].alloc = "freed" <=> deleter_calls[h] # <<>>
        /\ heap[h].alloc = "freed" => (heap[h].refs = 0 /\ ~heap[h].in_cache)

\* A held entry that is no longer in the cache, after another one was freed.
C4_Witness ==
    \E a, b \in Handles :
        /\ held[a] > 0 /\ heap[a].alloc = "live" /\ ~heap[a].in_cache
        /\ heap[b].alloc = "freed"
        /\ capacity_ > 0

\* C5: usage is the sum of the charges of the entries that are in_cache.
InCache == {h \in Handles : heap[h].in_cache}
ChargeOf == [h \in Handles |-> heap[h].charge]
C5_UsageIsSum == ~destroyed => usage_ = SumOver(InCache, ChargeOf)

\* Two cached entries of different charge beside a held entry that left the
\* cache.
C5_Witness ==
    /\ ~destroyed
    /\ \E a, b, c \in Handles :
          /\ heap[a].in_cache /\ heap[b].in_cache
          /\ heap[a].charge # heap[b].charge
          /\ heap[c].alloc = "live" /\ ~heap[c].in_cache /\ held[c] > 0

----------------------------------------------------------------------------
(* Claims about the skiplist.                                              *)

RECURSIVE SortedSeq(_)
SortedSeq(S) ==
    IF S = {} THEN <<>>
    ELSE LET m == CHOOSE x \in S : \A y \in S : x <= y
         IN  <<m>> \o SortedSeq(S \ {m})

StrictlyAscending(q) == \A i, j \in 1..Len(q) : i < j => q[i] < q[j]

\* C6: with one writer and lock-free readers, at every interleaving of the
\* writer's stores, the keys a reader has observed in its forward iteration
\* are strictly ascending and are keys given to Insert, they include every
\* key whose Insert returned before the iteration started (all of them once
\* the iteration is over, those up to the current position before), and the
\* reader never moves along a link that was not initialised.
C6_ReaderSafety ==
    \A r \in DOMAIN reader :
        LET it == reader[r]
            seenKeys == SeqToSet(it.seen)
        IN  /\ it.pc # "undefined"
            /\ StrictlyAscending(it.seen)
            /\ seenKeys \subseteq
                   completed \cup (IF writer.pc = "idle" THEN {} ELSE {writer.key})
            /\ it.pc = "done" => it.before \subseteq seenKeys
            /\ it.pc = "iterating" =>
                   \A k \in it.before : k <= it.seen[Len(it.seen)] => k \in seenKeys

\* An iteration that ended while an Insert was in progress, having met a key
\* inserted after it started.
C6_Witness ==
    \E r \in DOMAIN reader :
        /\ reader[r].pc = "done"
        /\ Len(reader[r].seen) >= 2
        /\ reader[r].before # {}
        /\ SeqToSet(reader[r].seen) \ reader[r].before # {}
        /\ writer.pc = "publish"

\* C7: after the sequential insertion of distinct keys in any order and with
\* any node heights in 1..12, SeekToFirst and Next yield the keys in
\* ascending order, and Contains(k) is true exactly for the inserted keys.
C7_OrderedSet ==
    writer.pc = "idle" /\ reader = <<>> =>
        /\ Iterate(List) = SortedSeq(completed)
        /\ \A k \in 0..(MaxKeys + 1) : Contains(List, k) <=> k \in completed

\* All keys but one inserted, the list at its full height over a node of
\* height 1.
C7_Witness ==
    /\ reader = <<>>
    /\ Cardinality(completed) >= 2
    /\ completed # IntKeys
    /\ max_height_ = kMaxHeight
    /\ \E n \in DOMAIN node : node[n].height = 1

----------------------------------------------------------------------------
(* Claims about the memtable.                                              *)

LookupSequences == 4..8
LookupUserKeys == {UserKeys[i] : i \in 1..Len(UserKeys)}

\* What a caller of Get sees.
GetOutcome(k, s) ==
    LET r == MemTableGet(List, k, s)
    IN  IF ~r.ret THEN <<"NotPresent">>
        ELSE IF r.status = "OK" THEN <<"Found", r.value>> ELSE <<"Deleted">>

\* The entries added for k that a read at sequence s may see, and those of
\* them with the largest sequence.
VisibleEntries(k, s) == {e \in added : e.key = k /\ e.s <= s}
NewestEntries(k, s) ==
    {e \in VisibleEntries(k, s) : \A f \in VisibleEntries(k, s) : f.s <= e.s}
\* Of the newest entries, the one with the largest type.
DecidingEntries(k, s) ==
    {e \in NewestEntries(k, s) : \A f \in NewestEntries(k, s) : f.type <= e.type}

OutcomeOf(e) == IF e.type = kTypeValue THEN <<"Found", e.value>> ELSE <<"Deleted">>

\* C8 as stated: for adds with pairwise distinct (user_key, sequence, type),
\* get(k) at sequence s returns Found(v) if the entry for k with the largest
\* sequence <= s is a put of v, Deleted if it is a deletion, and NotPresent
\* if no entry for k has a sequence <= s.
C8_Original ==
    \A k \in LookupUserKeys, s \in LookupSequences :
        /\ \A e \in NewestEntries(k, s) : GetOutcome(k, s) = OutcomeOf(e)
        /\ VisibleEntries(k, s) = {} => GetOutcome(k, s) = <<"NotPresent">>

\* C8, amended: for adds with pairwise distinct (user_key, sequence, type),
\* get(k) at sequence s is decided by the entry for k with the largest
\* (sequence, type) among those with sequence <= s, a put ranking above a
\* deletion of the same sequence: Found(v) if it is a put of v, Deleted if it
\* is a deletion, NotPresent if no entry for k has a sequence <= s.
C8_GetSemantics ==
    \A k \in LookupUserKeys, s \in LookupSequences :
        /\ \A e \in DecidingEntries(k, s) : GetOutcome(k, s) = OutcomeOf(e)
        /\ VisibleEntries(k, s) = {} => GetOutcome(k, s) = <<"NotPresent">>

\* add(5, put, k, v1) and add(6, del, k) have been made, with another user
\* key behind k in the list: k reads Deleted from 6 on, v1 at 5, nothing at 4.
C8_Witness ==
    \E v \in MemValues :
        /\ [s |-> 5, type |-> kTypeValue, key |-> UserKeys[1], value |-> v] \in added
        /\ [s |-> 6, type |-> kTypeDeletion, key |-> UserKeys[1], value |-> <<>>] \in added
        /\ \E e \in added : e.key = UserKeys[2]
        /\ GetOutcome(UserKeys[1], 4) = <<"NotPresent">>
        /\ GetOutcome(UserKeys[1], 5) = <<"Found", v>>
        /\ \A s \in 6..8 : GetOutcome(UserKeys[1], s) = <<"Deleted">>

----------------------------------------------------------------------------
(* Claims about the table builder.  The file is read back as a reader of   *)
(* the format would: the footer gives the metaindex and index blocks, the  *)
(* blocks give their entries.                                              *)

FinishedOK == finished /\ status = "OK"

\* The entries [key, value] of the block contents data, from position p of
\* the entry area, which ends before limit.
RECURSIVE ReadEntries(_, _, _, _)
ReadEntries(data, p, limit, prev_key) ==
    IF p >= limit THEN <<>>
    ELSE LET shared == GetVarint32Ptr(data, p, limit)
             non_shared == GetVarint32Ptr(data, shared.ptr, limit)
             value_length == GetVarint32Ptr(data, non_shared.ptr, limit)
             q == value_length.ptr
             k == SubSeq(prev_key, 1, shared.value)
                      \o SubSeq(data, q, q + non_shared.value - 1)
             v == SubSeq(data, q + non_shared.value,
                         q + non_shared.value + value_length.value - 1)
         IN  <<[key |-> k, value |-> v]>>
             \o ReadEntries(data, q + non_shared.value + value_length.value, limit, k)

BlockEntries(data) ==
    LET num_restarts == DecodeFixed32(data, Len(data) - 3)
    IN  ReadEntries(data, 1, Len(data) - 4 * (num_restarts + 1) + 1, <<>>)

\* The two varints of a block handle at position p of data.
ReadHandle(data, p) ==
    LET o == GetVarint32Ptr(data, p, Len(data) + 1)
        z == GetVarint32Ptr(data, o.ptr, Len(data) + 1)
    IN  [offset |-> o.value, size |-> z.value, ptr |-> z.ptr]

\* The number of bytes appended before the i-th slice, and the handle of a
\* block that is the i-th slice.
RECURSIVE FileOffset(_)
FileOffset(i) == IF i <= 1 THEN 0 ELSE FileOffset(i - 1) + file[i - 1].size
HandleAt(i) == [offset |-> FileOffset(i), size |-> file[i].size]

IsBlock(slice) == slice.form \in {"raw", "snappy"} /\ Len(slice.bytes) >= 4
IsBlockWithTrailer(i) ==
    /\ i >= 1 /\ i + 1 <= Len(file)
    /\ IsBlock(file[i])
    /\ file[i + 1] = TrailerSlice(IF file[i].form = "snappy" THEN kSnappyCompression
                                  ELSE kNoCompression)

\* The file ends with metaindex block, index block and footer.
EndsWithFooter ==
    LET n == Len(file)
    IN  /\ n >= 5
        /\ IsBlockWithTrailer(n - 4)
        /\ IsBlockWithTrailer(n - 2)
        /\ file[n] = RawSlice(file[n].bytes)
        /\ file[n].size = kEncodedLength

MetaindexEntries == BlockEntries(file[Len(file) - 4].bytes)
IndexEntries == BlockEntries(file[Len(file) - 2].bytes)
HasFilterBlock == MetaindexEntries # <<>>
\* The slices in front of the filter block, or of the metaindex block.
DataSlices == Len(file) - 5 - (IF HasFilterBlock THEN 2 ELSE 0)
DataBlocks == DataSlices \div 2
DataBlockEntries(i) == BlockEntries(file[2 * i - 1].bytes)

RECURSIVE AllDataEntries(_)
AllDataEntries(i) ==
    IF i > DataBlocks THEN <<>> ELSE DataBlockEntries(i) \o AllDataEntries(i + 1)

\* C9: after a Finish that returns OK, the index block holds exactly one
\* entry per data block written, in block order; the key s_i of entry i
\* satisfies last_key(block_i) <= s_i < first_key(block_{i+1}) (for the last
\* block only last_key <= s_i), and its value is the encoded handle
\* (offset, size) at which block_i was written.
C9_IndexEntries ==
    FinishedOK /\ EndsWithFooter /\ DataSlices >= 0 =>
        /\ Len(IndexEntries) = DataBlocks
        /\ \A i \in 1..DataBlocks :
              /\ IsBlockWithTrailer(2 * i - 1)
              /\ DataBlockEntries(i) # <<>>
              /\ IndexEntries[i].value = EncodeHandle(HandleAt(2 * i - 1))
              /\ ComparatorCompare(DataBlockEntries(i)[Len(DataBlockEntries(i))].key,
                                   IndexEntries[i].key) <= 0
              /\ i < DataBlocks /\ IsBlockWithTrailer(2 * i + 1) =>
                     ComparatorCompare(IndexEntries[i].key,
                                       DataBlockEntries(i + 1)[1].key) < 0

\* A finished table of two data blocks whose first index key is a separator
\* that is not the last key of its block.
C9_Witness ==
    /\ FinishedOK /\ EndsWithFooter
    /\ DataBlocks = 2
    /\ Len(IndexEntries) = 2
    /\ IndexEntries[1].key # DataBlockEntries(1)[Len(DataBlockEntries(1))].key
    /\ IndexEntries[2].value = EncodeHandle(HandleAt(3))

\* The layout of a complete table file, as long as the builder exists: a
\* filter block goes with the filter policy the builder was made with.
FileLayout ==
    LET n == Len(file)
        footer == file[n].bytes
        metaindex_handle == ReadHandle(footer, 1)
        index_handle == ReadHandle(footer, metaindex_handle.ptr)
    IN  /\ EndsWithFooter
        /\ Len(footer) = kEncodedLength
        /\ SubSeq(footer, kEncodedLength - 7, kEncodedLength) = kTableMagicNumber
        /\ [offset |-> metaindex_handle.offset, size |-> metaindex_handle.size]
               = HandleAt(n - 4)
        /\ [offset |-> index_handle.offset, size |-> index_handle.size]
               = HandleAt(n - 2)
        /\ \A i \in index_handle.ptr..(kEncodedLength - 8) : footer[i] = 0
        /\ file[n - 3].size = kBlockTrailerSize /\ file[n - 1].size = kBlockTrailerSize
        /\ Len(MetaindexEntries) <= 1
        /\ HasFilterBlock = (filter_block # NoFilterBlock)
        /\ HasFilterBlock =>
               /\ filter_block.policy # NULL
               /\ n >= 7
               /\ file[n - 6] = RawSlice(filter_block.result)
               /\ file[n - 5] = TrailerSlice(kNoCompression)
               /\ \E policy \in FilterPolicies :
                      MetaindexEntries[1].key =
                          <<102, 105, 108, 116, 101, 114, 46>> \o PolicyName(policy)
               /\ MetaindexEntries[1].value = EncodeHandle(HandleAt(n - 6))
        /\ DataSlices >= 0 /\ DataSlices % 2 = 0
        /\ \A i \in 1..DataBlocks :
               /\ IsBlockWithTrailer(2 * i - 1)
               /\ file[2 * i].size = kBlockTrailerSize
               /\ DataBlockEntries(i) # <<>>
        /\ AllDataEntries(1) = add_calls
        /\ offset = FileOffset(n + 1)

\* C10: on a Finish that returns OK the bytes appended to the file are, in
\* this order: every data block in Add order, each followed by its 5-byte
\* trailer; the filter block with its trailer (only when a filter policy is
\* set); the metaindex block with trailer; the index block with trailer; the
\* 48-byte footer, after which nothing is appended; the footer's metaindex
\* and index handles are the (offset, size) at which those blocks were
\* written.
C10_FileLayout == FinishedOK => FileLayout

\* A finished table with a filter block, two data blocks and a block stored
\* in its compressed form.
C10_Witness ==
    /\ FinishedOK /\ EndsWithFooter
    /\ HasFilterBlock
    /\ DataBlocks = 2
    /\ Len(add_calls) = 3
    /\ \E i \in 1..Len(file) : file[i].form = "snappy"
    /\ file[Len(file) - 5] = TrailerSlice(kNoCompression)

----------------------------------------------------------------------------
(* Claims about the table builder after an error of the file.              *)

\* C11: once an Append or a Flush of the file has failed, status() is that
\* error in every later state: no operation of the builder, Add, Flush and
\* Finish included, appends to the file or changes offset, num_entries, the
\* data block or the index block.
C11_StickyError ==
    [][status = "IOError" =>
           /\ status' = "IOError"
           /\ file' = file
           /\ offset' = offset
           /\ num_entries' = num_entries
           /\ data_block' = data_block
           /\ index_block' = index_block]_vars

\* An Add was made after the error (it did not count) and Finish returned
\* the error.
C11_Witness ==
    /\ status = "IOError"
    /\ Len(add_calls) > num_entries
    /\ finished
    /\ closed

----------------------------------------------------------------------------
(* Claims about BuildTable.                                                *)

BuildTableDone == bt_pc = "done"
CalledOn(op, fname) ==
    \E i \in 1..Len(env_calls) : env_calls[i] = EnvCall(op, fname)
\* NewWritableFile was called and returned OK.
FileCreated ==
    /\ CalledOn("NewWritableFile", TableFileName(meta.number))
    /\ bt_ret # "IOError: NewWritableFile"

\* C12: a BuildTable that returns an error after it created the file has
\* called RemoveFile on the table file name; one that returns OK for an
\* input that is not empty has not, the file exists and meta.file_size > 0;
\* an error of the input iterator is the status returned.
C12_RemoveOnError ==
    BuildTableDone =>
        /\ bt_ret # "OK" /\ FileCreated
               => /\ CalledOn("RemoveFile", TableFileName(meta.number))
                  /\ TableFileName(meta.number) \notin table_files
        /\ bt_ret = "OK" /\ iter.entries # <<>>
               => /\ ~CalledOn("RemoveFile", TableFileName(meta.number))
                  /\ TableFileName(meta.number) \in table_files
                  /\ meta.file_size > 0
        /\ IterStatus(iter) # "OK" => bt_ret = IterStatus(iter)

\* Every write, Sync, Close and the verification succeeded and the input
\* iterator ended on an error: BuildTable returned it and removed the file.
C12_Witness ==
    /\ BuildTableDone
    /\ CalledOn("NewIterator", TableFileName(meta.number))
    /\ FinishedOK
    /\ Len(add_calls) = 2
    /\ bt_ret = "Corruption: input"
    /\ CalledOn("RemoveFile", TableFileName(meta.number))
    /\ table_files = {}

\* C13: for an input that is empty and reports no error, BuildTable never
\* calls NewWritableFile, appends nothing, sets meta.file_size to 0 and
\* returns OK.
C13_EmptyInput ==
    BuildTableDone /\ iter.entries = <<>> /\ ~iter.error =>
        /\ ~CalledOn("NewWritableFile", TableFileName(meta.number))
        /\ table_files = {}
        /\ file = <<>>
        /\ offset = 0
        /\ meta.file_size = 0
        /\ bt_ret = "OK"

\* BuildTable has returned for an empty input without error, on options
\* that ask for a filter block.
C13_Witness ==
    /\ BuildTableDone
    /\ iter.entries = <<>>
    /\ ~iter.error
    /\ bt_ret = "OK"
    /\ options.filter_policy # NULL
    /\ file = <<>>

----------------------------------------------------------------------------
(* Claims about the table cache.                                           *)

\* The file of a table can be opened and Table::Open accepts it.
Openable(file_number) ==
    \/ tc_files[TableFileName(file_number)] = "good"
    \/ /\ tc_files[TableFileName(file_number)] = "absent"
       /\ tc_files[SSTTableFileName(file_number)] = "good"

\* The entry of cache_ for a file number, NULL if there is none.
CachedTable(file_number) ==
    HandleTableLookup(heap, table_, EncodeFixed64(file_number),
                      KeyHash[EncodeFixed64(file_number)])

\* C14: a FindTable that fails (no file under the .ldb or the .sst name, or
\* Table::Open fails) changes nothing in the cache and leaves no handle
\* held: the failure is not cached.  A FindTable that has missed in the
\* cache opens the file, and succeeds, inserting the table, exactly when
\* the file is openable then, whatever failed before.
C14_FailureNotCached ==
    [][\A t \in Threads :
          tc_thread[t].pc = "open" /\ tc_thread'[t].pc # "open" =>
              IF Openable(tc_thread[t].file_number)
              THEN /\ tc_thread'[t].pc # "failed"
                   /\ next_handle' = next_handle + 1
                   /\ inserted'[next_handle][1] = EncodeFixed64(tc_thread[t].file_number)
                   /\ held'[next_handle] = 1
              ELSE /\ tc_thread'[t].pc = "failed"
                   /\ tc_thread'[t].s # "OK"
                   /\ tc_thread'[t].handle = NULL
                   /\ cacheVars' = cacheVars
                   /\ iterators' = iterators]_vars

\* A FindTable for table 8 failed before any table was inserted, and a
\* later FindTable for it has opened and inserted it as the first entry.
C14_Witness ==
    /\ find_failed = 1
    /\ CachedTable(8) = 1
    /\ \A t \in Threads : tc_thread[t].pc = "idle"

\* C15: DeleteEntry has not run for the entry of a live iterator of
\* NewIterator, whatever Evict, re-insertions of its file number and
\* insertions beyond the capacity did to the cache; DeleteEntry has run,
\* once, only for an entry with no live iterator that has left the cache.
C15_TableOutlivesIterator ==
    \A h \in Handles :
        /\ iterators[h] > 0 =>
               /\ deleter_calls[h] = <<>>
               /\ heap[h].alloc = "live"
               /\ heap[h].value = ValueFor(h)
        /\ deleter_calls[h] # <<>> =>
               /\ iterators[h] = 0
               /\ Len(deleter_calls[h]) = 1
               /\ inserted[h] # <<>>
               /\ HandleTableLookup(heap, table_, inserted[h][1], KeyHash[inserted[h][1]]) # h

\* An iterator is live on a table that Evict has removed from the cache
\* and whose file number a later miss has inserted again.
C15_Witness ==
    \E h \in Handles, g \in Handles :
        /\ iterators[h] > 0
        /\ heap[h].alloc = "live"
        /\ ~heap[h].in_cache
        /\ g # h
        /\ heap[g].alloc = "live"
        /\ heap[g].in_cache
        /\ heap[g].key = heap[h].key

----------------------------------------------------------------------------
(* Claims about the filter block.                                          *)

\* The reader of the block that Finish returned.
FinishedReader == FilterBlockReader(fb_builder.policy, fb_builder.result)

\* Filter number index of a well-formed block is empty: its start offset
\* equals the next filter's offset.
FilterIsEmpty(rd, index) ==
    /\ index < rd.num
    /\ DecodeFixed32(rd.data, rd.offset + index * 4 + 1)
           = DecodeFixed32(rd.data, rd.offset + index * 4 + 5)

\* C16: every key passed to AddKey after StartBlock(o) and before the next
\* StartBlock may match at block offset o in the reader of the block that
\* Finish returns (the policies have no false negatives).
C16_FilterSoundness ==
    fb_finished =>
        \A added_key \in fb_keys :
            KeyMayMatch(FinishedReader, added_key[1], added_key[2])

\* Two blocks in different filters, each with a key that the filter of the
\* other block does not match.
C16_Witness ==
    /\ fb_finished
    /\ fb_builder.policy = 1
    /\ \E a \in fb_keys, b \in fb_keys :
           /\ a[1] < kFilterBase
           /\ b[1] >= 3 * kFilterBase
           /\ ~KeyMayMatch(FinishedReader, a[1], b[2])
           /\ ~KeyMayMatch(FinishedReader, b[1], a[2])

\* C17: in the reader of a well-formed block, no key may match at a block
\* offset whose filter is empty, whatever the policy answers.
C17_EmptyFilterRejects ==
    fb_finished =>
        \A block_offset \in BlockOffsets, key \in FilterKeys :
            FilterIsEmpty(FinishedReader, FilterIndex(block_offset, kFilterBaseLg))
                => ~KeyMayMatch(FinishedReader, block_offset, key)

----------------------------------------------------------------------------
(* Claims about recency and eviction in the LRU cache.                     *)

\* C18 as stated: after a Lookup that succeeded and the Release of its
\* handle right after it, the entry is the newest of the lru_ list.
C18_ReleasedIsNewest ==
    \A e \in Handles :
        last_op = <<"Release", e>> => lru_ # <<>> /\ lru_[Len(lru_)] = e

\* C18: after a Lookup that succeeded and the Release of its handle right
\* after it, the entry is the newest of the lru_ list, the last one eviction
\* would remove, when no other client handle to it is left; when one is
\* left, the entry is on the in_use_ list and not on the lru_ list.
C18_ReleasedIsNewestUnlessHeld ==
    \A e \in Handles :
        last_op = <<"Release", e>> =>
            IF held[e] = 0
            THEN lru_ # <<>> /\ lru_[Len(lru_)] = e
            ELSE e \notin SeqToSet(lru_) /\ e \in SeqToSet(in_use_)

\* Lookup and Release have moved the entry inserted first behind one
\* inserted later.
C18_Witness ==
    \E e \in Handles :
        /\ last_op = <<"Release", e>>
        /\ held[e] = 0
        /\ Len(lru_) >= 2
        /\ lru_[Len(lru_)] = e
        /\ e < lru_[1]

\* The number of keys inserted so far.
NumInserted == next_handle - 1

\* The Insert calls so far had distinct keys of charge 1, and each handle
\* was released before the next call.
UnreferencedInserts ==
    /\ plain_inserts
    /\ \A h \in Handles : held[h] = 0
    /\ \A a \in 1..NumInserted, b \in 1..NumInserted :
           a # b => inserted[a][1] # inserted[b][1]

\* C19 as stated: on a cache of capacity C > 0, after N > C such Insert
\* calls, the deleter has run for the N - C keys inserted first and for no
\* other, and TotalCharge is C.
C19_EarliestDeleted ==
    (UnreferencedInserts /\ cache_capacity > 0 /\ NumInserted > cache_capacity) =>
        /\ \A h \in 1..NumInserted :
               deleter_calls[h] # <<>> <=> h <= NumInserted - cache_capacity
        /\ TotalCharge = cache_capacity

\* The handles of the keys that went to shard i, and ceil(C / 16).
InsertedInto(i) == {h \in 1..NumInserted : ShardOf(KeyHash[inserted[h][1]]) = i}
SixteenthRoundedUp(capacity) ==
    IF capacity % 16 = 0 THEN capacity \div 16 ELSE (capacity \div 16) + 1

\* C19: on a cache of capacity C > 0, after such Insert calls, in every shard
\* the deleter has run for all but the ceil(C / 16) keys that were inserted
\* last among the keys of that shard, and for no other; the usage of the
\* shard is the number of its keys that are left, and TotalCharge is the sum.
C19_EarliestOfShardDeleted ==
    (UnreferencedInserts /\ cache_capacity > 0) =>
        /\ \A i \in Shards :
               /\ \A h \in InsertedInto(i) :
                      deleter_calls[h] # <<>> <=>
                          Cardinality({g \in InsertedInto(i) : g >= h})
                              > SixteenthRoundedUp(cache_capacity)
               /\ shard_[i].usage = Min(Cardinality(InsertedInto(i)),
                                        SixteenthRoundedUp(cache_capacity))
        /\ TotalCharge = Cardinality({h \in 1..NumInserted : deleter_calls[h] = <<>>})

\* More keys than the capacity were inserted: one shard got more keys than
\* it holds, another shard keeps all of its keys.
C19_Witness ==
    /\ UnreferencedInserts
    /\ cache_capacity > 0
    /\ NumInserted > cache_capacity
    /\ \E i \in Shards : Cardinality(InsertedInto(i)) > SixteenthRoundedUp(cache_capacity)
    /\ \E i \in Shards : /\ InsertedInto(i) # {}
                         /\ \A h \in InsertedInto(i) : deleter_calls[h] = <<>>

\* C20: the entries that the eviction of an Insert removes are the cached
\* entries without a client handle that were released longest ago, as many
\* of them as it takes to bring usage_ down to capacity_ and no more, or all
\* of them; an entry that a client holds is not removed and the table still
\* finds it (an entry of the inserted key is replaced, not evicted).
C20_EvictsLeastRecentlyReleased ==
    [][next_handle' = next_handle + 1 =>
          LET key == inserted'[next_handle][1]
              evicted == EvictedBy(key, heap, heap')
              n == Cardinality(evicted)
              candidates == SelectSeq(release_order, LAMBDA x : heap[x].key # key)
          IN  /\ n <= Len(candidates)
              /\ evicted = {candidates[i] : i \in 1..n}
              /\ \A x \in evicted : held[x] = 0
              /\ usage_' <= capacity_ \/ n = Len(candidates)
              /\ n > 0 => usage_' + heap[candidates[n]].charge > capacity_
              /\ \A x \in Handles :
                     (held[x] > 0 /\ Cached(heap, x) /\ heap[x].key # key) =>
                         /\ Cached(heap', x)
                         /\ HandleTableLookup(heap', table_', heap[x].key,
                                              heap[x].hash) = x]_vars

\* An Insert has evicted an entry and stopped above the capacity, with the
\* entry of another key that a client holds still cached.
C20_Witness ==
    /\ last_op[1] = "Insert"
    /\ last_op[2] >= 1
    /\ usage_ > capacity_
    /\ lru_ = <<>>
    /\ \E x \in Handles :
           /\ x < next_handle - 1
           /\ held[x] > 0
           /\ Cached(heap, x)
           /\ HandleTableLookup(heap, table_, heap[x].key, heap[x].hash) = x

----------------------------------------------------------------------------
(* Claims about the operations of the LRU cache.                           *)

\* C21: on a shard of capacity 0 every Insert returns a handle to a live
\* entry with the value given, the entry is on neither list and not in the
\* hash table, usage_ is 0, no Lookup finds a key, and the deleter of an
\* entry has run exactly when its handle has been released.
C21_CapacityZeroRetainsNothing ==
    (capacity_ = 0 /\ ~destroyed) =>
        /\ usage_ = 0 /\ lru_ = <<>> /\ in_use_ = <<>>
        /\ table_.elems_ = 0
        /\ \A key \in Keys : HandleTableLookup(heap, table_, key, KeyHash[key]) = NULL
        /\ \A h \in 1..(next_handle - 1) :
              IF held[h] > 0
              THEN /\ held[h] = 1
                   /\ heap[h].alloc = "live" /\ heap[h].refs = 1 /\ ~heap[h].in_cache
                   /\ <<heap[h].key, heap[h].value>> = inserted[h]
                   /\ deleter_calls[h] = <<>>
              ELSE deleter_calls[h] = <<inserted[h]>>

\* On a shard of capacity 0 one handle was released and its deleter has run,
\* while the handle of a later Insert of the same key is still held.
C21_Witness ==
    /\ capacity_ = 0 /\ ~destroyed
    /\ \E a, b \in Handles :
          /\ a < b /\ b < next_handle
          /\ inserted[a][1] = inserted[b][1]
          /\ held[a] = 0 /\ deleter_calls[a] = <<inserted[a]>>
          /\ held[b] = 1 /\ heap[b].alloc = "live"

\* The entry that Lookup(key) returns, NULL if there is none.
Found(hp, t, key) == HandleTableLookup(hp, t, key, KeyHash[key])

\* An Erase of the key of the cached entry e has taken e out of the table,
\* of its list and of usage_, and has freed it if no client held it.
ErasedCached(e) ==
    /\ Found(heap', table_', heap[e].key) = NULL
    /\ usage_' = usage_ - heap[e].charge
    /\ ~OnList(lru_', e) /\ ~OnList(in_use_', e)
    /\ IF held[e] > 0
       THEN /\ heap'[e] = [heap[e] EXCEPT !.in_cache = FALSE, !.refs = held[e]]
            /\ deleter_calls'[e] = <<>>
       ELSE deleter_calls'[e] = <<inserted[e]>>

\* The step leaves the held entry e, which is out of the cache, as it is, or
\* releases its last handle and runs its deleter.
HeldOutsideCache(e) ==
    IF held'[e] = 0 THEN deleter_calls'[e] = <<inserted[e]>>
    ELSE /\ heap'[e] = [heap[e] EXCEPT !.refs = held'[e]]
         /\ deleter_calls'[e] = <<>>

\* C22: an Erase of the key of a cached entry takes the entry out of the
\* table and the lists and its charge out of usage_; the entry stays valid
\* while clients hold handles to it, its deleter runs at the Release of the
\* last of them, or in Erase if there is none; the key is not found again
\* before an Insert of it; an Erase of a key that is not cached changes
\* nothing.
C22_EraseRemovesEntry ==
    [][/\ \A e \in Handles : (last_op' = <<"Erase", e>>) => ErasedCached(e)
       /\ (last_op' = <<"Erase", NULL>>) =>
              UNCHANGED <<capacity_, usage_, lru_, in_use_, table_, heap, held,
                          deleter_calls>>
       /\ \A key \in Keys :
              (Found(heap, table_, key) = NULL /\ Found(heap', table_', key) # NULL) =>
                  (next_handle' = next_handle + 1 /\ inserted'[next_handle][1] = key)
       /\ \A e \in Handles :
              (heap[e].alloc = "live" /\ ~heap[e].in_cache /\ held[e] > 0) =>
                  HeldOutsideCache(e)]_vars

\* An Erase has removed an entry that a client holds; another entry is
\* cached.
C22_Witness ==
    \E e \in Handles :
        /\ last_op = <<"Erase", e>>
        /\ held[e] > 0 /\ heap[e].alloc = "live" /\ ~heap[e].in_cache
        /\ Found(heap, table_, heap[e].key) = NULL
        /\ usage_ > 0

\* e is NULL or the entry of the newest Insert of key among ins.
NullOrNewest(e, key, ins) ==
    e # NULL =>
        /\ ins[e] # <<>> /\ ins[e][1] = key
        /\ \A g \in Handles : (ins[g] # <<>> /\ ins[g][1] = key) => g <= e

\* The table t holds at most one entry of each key, the entry that Lookup
\* finds, and the entry found is cached.
OneEntryPerKey(hp, t) ==
    LET chained == AllChained(t, 0)
    IN  /\ \A i, j \in 1..Len(chained) :
               hp[chained[i]].key = hp[chained[j]].key => i = j
        /\ \A i \in 1..Len(chained) :
               /\ Cached(hp, chained[i])
               /\ Found(hp, t, hp[chained[i]].key) = chained[i]

\* The Insert of the entry new has displaced the cached entry old of its key.
Displaced(old, new) ==
    /\ Found(heap', table_', heap[old].key) = new
    /\ ~OnList(AllChained(table_', 0), old)
    /\ ~OnList(lru_', old) /\ ~OnList(in_use_', old)
    /\ usage_' = usage_ - heap[old].charge + heap'[new].charge
                 - SumOver(EvictedBy(heap[old].key, heap, heap'),
                           [x \in Handles |-> heap[x].charge])
    /\ IF held[old] > 0
       THEN /\ heap'[old] = [heap[old] EXCEPT !.in_cache = FALSE, !.refs = held[old]]
            /\ deleter_calls'[old] = <<>>
       ELSE deleter_calls'[old] = <<inserted[old]>>

\* C23: an Insert of a key that has a cached entry displaces that entry: it
\* leaves the table and its list, usage_ loses its charge, Lookup finds the
\* entry of the newest Insert, and the old entry stays live with its key and
\* value while clients hold it; the table of a cache that has not been
\* destroyed never holds two entries of a key.
C23_InsertDisplaces ==
    [][/\ ~destroyed' => OneEntryPerKey(heap', table_')
       /\ ~destroyed' =>
              \A key \in Keys : NullOrNewest(Found(heap', table_', key), key, inserted')
       /\ \A e \in Handles :
              held'[e] > 0 =>
                  (heap'[e].alloc = "live" /\ deleter_calls'[e] = <<>>
                       /\ <<heap'[e].key, heap'[e].value>> = inserted'[e])
       /\ \A old \in Handles :
              (next_handle' = next_handle + 1 /\ capacity_ > 0
                   /\ Found(heap, table_, inserted'[next_handle][1]) = old) =>
                  Displaced(old, next_handle)]_vars

\* An Insert has displaced an entry that a client holds: Lookup finds the new
\* entry, the old one is live outside the cache.
C23_Witness ==
    \E old \in Handles :
        /\ last_op[1] = "Insert" /\ last_op[3] = old
        /\ held[old] > 0 /\ heap[old].alloc = "live" /\ ~heap[old].in_cache
        /\ Found(heap, table_, heap[old].key) = next_handle - 1
        /\ inserted[old][2] # inserted[next_handle - 1][2]

----------------------------------------------------------------------------
(* Claims about the sharded cache.                                         *)

\* The top 4 bits of a hash, and the entries that shard i of shards holds
\* in its table or on its lists.
TopFourBits(hash) == hash[4] \div 16
EntriesOf(shards, i) ==
    SeqToSet(AllChained(shards[i].table, 0)) \cup SeqToSet(shards[i].lru)
        \cup SeqToSet(shards[i].in_use)
\* The cached entries with a key of shard i that clients hold.
HeldIn(i) ==
    {e \in Handles : Cached(heap, e) /\ held[e] > 0 /\ TopFourBits(heap[e].hash) = i}

\* Prune has left the cached entry e alone if a client holds it, and has
\* removed and freed it if not.
Pruned(e) ==
    IF held[e] = 0
    THEN ~Cached(heap', e) /\ deleter_calls'[e] = <<inserted[e]>>
    ELSE /\ heap'[e] = heap[e]
         /\ OnList(shard_'[TopFourBits(heap[e].hash)].in_use, e)
         /\ HandleTableLookup(heap', shard_'[TopFourBits(heap[e].hash)].table,
                              heap[e].key, heap[e].hash) = e

\* C24: when Prune returns, the lru list of every shard is empty: every
\* cached entry without a client handle has left the cache and its deleter
\* has run, every cached entry that a client holds is unchanged and still
\* found, and the usage of each shard is the sum of the charges of its held
\* entries.
C24_PruneRemovesUnheld ==
    [][called'[1] = "Prune" =>
          /\ \A i \in Shards :
                 /\ shard_'[i].lru = <<>>
                 /\ shard_'[i].in_use = shard_[i].in_use
                 /\ shard_'[i].usage =
                        SumOver(HeldIn(i), [e \in Handles |-> heap[e].charge])
          /\ \A e \in Handles : Cached(heap, e) => Pruned(e)]_vars

\* A Prune has removed two entries of different shards and has left the one
\* that a client holds.
C24_Witness ==
    /\ called[1] = "Prune" /\ called[2] >= 2
    /\ \E e \in Handles :
           /\ held[e] > 0 /\ Cached(heap, e)
           /\ TotalCharge = heap[e].charge
    /\ \E a, b \in Handles :
           /\ deleter_calls[a] # <<>> /\ deleter_calls[b] # <<>>
           /\ ShardOf(KeyHash[inserted[a][1]]) # ShardOf(KeyHash[inserted[b][1]])

\* C25 as stated: every call takes the mutex of one shard and leaves the
\* other 15 shards as they are.
C25_OneShardPerCall ==
    [][\E i \in Shards :
           /\ locked' = {i}
           /\ \A j \in Shards \ {i} : shard_'[j] = shard_[j]]_vars

\* The entries that the step has changed; their hash is that of the live one
\* of the two states.
Touched == {e \in Handles : heap'[e] # heap[e]}
HashOfTouched(e) == IF heap'[e].alloc = "live" THEN heap'[e].hash ELSE heap[e].hash

\* C25: Insert, Lookup, Release and Erase take the mutex of one shard, the
\* one given by the top 4 bits of the hash of the key, and Prune takes the
\* mutexes of all 16 shards, one after the other; a call leaves the shards
\* unchanged whose mutex it does not take, and every entry is kept by the
\* shard that the top 4 bits of its hash give.
C25_KeyedCallsUseOneShard ==
    [][/\ \A j \in Shards \ locked' : shard_'[j] = shard_[j]
       /\ called'[1] = "keyed" =>
              /\ \E i \in Shards : locked' = {i}
              /\ \A e \in Touched : TopFourBits(HashOfTouched(e)) \in locked'
       /\ called'[1] = "Prune" => locked' = Shards
       /\ \A i \in Shards : \A e \in EntriesOf(shard_', i) :
              TopFourBits(heap'[e].hash) = i]_vars

\* A call on a key of shard 12 while shard 1 holds entries.
C25_Witness ==
    /\ called[1] = "keyed"
    /\ locked = {12}
    /\ shard_[12].usage > 0
    /\ shard_[1].usage > 1

----------------------------------------------------------------------------
(* Claims about the table builder's options, counters and block writes.    *)

\* The filter policy of the options given to the constructor: the filter
\* block is made from it once, in the constructor of Rep, and keeps it.
ConstructorPolicy == IF filter_block = NoFilterBlock THEN NULL ELSE filter_block.policy

\* opt differs from the constructor's options in a field that must not
\* change: the comparator (which no step changes, so that the builder's is
\* the constructor's) or the filter policy.
DisallowedChange(opt) ==
    \/ opt.comparator # options.comparator
    \/ opt.filter_policy # ConstructorPolicy

\* C26: no step changes the comparator of the builder's options, and
\* ChangeOptions(opt) returns an error and leaves the options as they are
\* whenever opt differs from the options given to the constructor in the
\* comparator or in the filter policy; otherwise it installs opt and
\* returns OK.
C26_DisallowedChangeRejected ==
    [][/\ options'.comparator = options.comparator
       /\ change_call' # <<>> =>
              IF DisallowedChange(change_call'[1])
              THEN /\ change_call'[2] # "OK"
                   /\ options' = options
                   /\ index_block_options' = index_block_options
              ELSE /\ change_call'[2] = "OK"
                   /\ options' = change_call'[1]]_vars

FileSize == offset

\* The sizes, each with the size of a trailer, of the blocks written before
\* the block that is the i-th slice of the file (blocks are the slices 1, 3,
\* ..., each followed by its trailer).
RECURSIVE BlocksBefore(_)
BlocksBefore(i) ==
    IF i <= 1 THEN 0 ELSE BlocksBefore(i - 2) + file[i - 2].size + kBlockTrailerSize

\* The offset of the block handle encoded at the front of data.
HandleOffset(data) == ReadHandle(data, 1).offset

\* C28: as long as status() is OK, FileSize() is the number of bytes
\* appended to the file so far, and the handle of the data block written
\* last, kept for the index, has the offset that is the sum of the sizes
\* plus trailers of the blocks written before it; after a Finish that
\* returns OK, FileSize() is the sum of the sizes of all blocks, of a
\* 5-byte trailer for each, and of the 48-byte footer, and the offset of
\* every handle in the index block, in the metaindex block and in the
\* footer is the sum of the sizes plus trailers of the blocks written
\* before its block.
C28_FileSizeAndOffsets ==
    /\ status = "OK" => FileSize = FileOffset(Len(file) + 1)
    /\ status = "OK" /\ pending_index_entry =>
           /\ Len(file) >= 2
           /\ pending_handle.offset = BlocksBefore(Len(file) - 1)
    /\ FinishedOK =>
           LET n == Len(file)
               metaindex_handle == ReadHandle(file[n].bytes, 1)
           IN  /\ n >= 5 /\ n % 2 = 1
               /\ FileSize = BlocksBefore(n) + kEncodedLength
               /\ \A i \in 1..Len(IndexEntries) :
                      HandleOffset(IndexEntries[i].value) = BlocksBefore(2 * i - 1)
               /\ \A i \in 1..Len(MetaindexEntries) :
                      HandleOffset(MetaindexEntries[i].value) = BlocksBefore(n - 6)
               /\ metaindex_handle.offset = BlocksBefore(n - 4)
               /\ ReadHandle(file[n].bytes, metaindex_handle.ptr).offset = BlocksBefore(n - 2)

\* A finished table whose second data block, stored in its compressed form,
\* comes after a first block and is followed by a filter block.
C28_Witness ==
    /\ FinishedOK /\ Len(file) = 11
    /\ Len(IndexEntries) = 2
    /\ file[3].form = "snappy"
    /\ HandleOffset(IndexEntries[2].value) = file[1].size + kBlockTrailerSize
    /\ HandleOffset(MetaindexEntries[1].value) > HandleOffset(IndexEntries[2].value)
    /\ FileSize = FileOffset(12)

\* What WriteBlock(block) appends to the file in the environment env.
WrittenBy(env, block) ==
    SubSeq(WriteBlock(Rep(env), block).rep.file, Len(file) + 1,
           Len(WriteBlock(Rep(env), block).rep.file))

\* The compressed form of raw saves at least 1/8 of the size of raw.
SavesAnEighth(raw, compressed) == 8 * (Len(raw) - compressed.size) >= Len(raw)

\* C29: for the data block and the index block of every state in which
\* WriteBlock may be called, for the empty block (the metaindex block of a
\* table without filter), and for every outcome of the compressor and of the
\* file: WriteBlock appends the compressed form only if compression is
\* enabled, the compressor has succeeded and the compressed form saves at
\* least 1/8 of the raw size, and then with the type byte 1; in every other
\* case it appends the raw bytes with the type byte 0; the size of the
\* handle is the size of what was appended in front of the trailer.  The
\* compressed form is appended exactly when in addition its size is below
\* raw - raw / 8 (integer division), which a form that saves just 1/8 is not.
C29_WriteBlockCompression ==
    status = "OK" /\ ~closed =>
        \A block \in {data_block, index_block, NewBlockBuilder} :
            \A env \in [fail : 0..2, snappy : SnappyOutcomes] :
                LET raw == BlockBuilderFinish(block).buffer
                    snappy == Snappy_Compress(raw, env.snappy)
                    enabled == options.compression = kSnappyCompression
                    written == WrittenBy(env, block)
                    type == IF written[1].form = "snappy" THEN kSnappyCompression
                            ELSE kNoCompression
                IN  written # <<>> =>
                        /\ written[1].form = "snappy" =>
                               /\ enabled /\ snappy.ok
                               /\ written[1] = snappy.compressed
                               /\ SavesAnEighth(raw, written[1])
                        /\ ~(enabled /\ snappy.ok /\ SavesAnEighth(raw, snappy.compressed)) =>
                               written[1] = RawSlice(raw)
                        /\ written[1].form # "snappy" => written[1] = RawSlice(raw)
                        /\ Len(written) = 2 => written[2] = TrailerSlice(type)
                        /\ WriteBlock(Rep(env), block).handle.size = written[1].size
                        /\ written[1].form = "snappy" <=>
                               /\ enabled /\ snappy.ok
                               /\ snappy.compressed.size < Len(raw) - (Len(raw) \div 8)

\* Compression is enabled, the file holds a block stored in its compressed
\* form and a block stored raw, and the builder has a data block to write.
C29_Witness ==
    /\ status = "OK" /\ ~closed
    /\ options.compression = kSnappyCompression
    /\ ~BlockBuilderEmpty(data_block)
    /\ \E i \in 1..(Len(file) - 1) :
           file[i].form = "snappy" /\ file[i + 1] = TrailerSlice(kSnappyCompression)
    /\ \E j \in 1..(Len(file) - 1) :
           /\ IsBlock(file[j]) /\ file[j].form = "raw"
           /\ file[j + 1] = TrailerSlice(kNoCompression)

----------------------------------------------------------------------------
(* Claims about file names.                                                *)

ManifestPrefix == <<77, 65, 78, 73, 70, 69, 83, 84, 45>>         \* "MANIFEST-"
FixedNames == {Tail(CurrentFileName), Tail(LockFileName), Tail(InfoLogFileName),
               Tail(OldInfoLogFileName)}
KnownExtensions == {<<46, 108, 111, 103>>, <<46, 115, 115, 116>>, <<46, 108, 100, 98>>,
                    <<46, 100, 98, 116, 109, 112>>}

\* The part of s in front of its first ".".
RECURSIVE UpToDot(_)
UpToDot(s) == IF s = <<>> \/ Head(s) = 46 THEN <<>> ELSE <<Head(s)>> \o UpToDot(Tail(s))

\* A name that is not one of the fixed names is read as [MANIFEST-] number
\* part, up to the first ".", and extension, from that "." on.
IsManifestName(name) == StartsWith(name, ManifestPrefix)
AfterPrefix(name) ==
    IF IsManifestName(name) THEN SubSeq(name, Len(ManifestPrefix) + 1, Len(name)) ELSE name
NumberPartOf(name) == UpToDot(AfterPrefix(name))
ExtensionOf(name) ==
    SubSeq(AfterPrefix(name), Len(NumberPartOf(name)) + 1, Len(AfterPrefix(name)))

NonDigitInNumber(name) ==
    /\ name \notin FixedNames
    /\ \E i \in 1..Len(NumberPartOf(name)) : ~IsDigit(NumberPartOf(name)[i])
UnknownExtension(name) ==
    /\ name \notin FixedNames
    /\ ExtensionOf(name) \notin (IF IsManifestName(name) THEN {<<>>} ELSE KnownExtensions)
\* More zeroes in front of the number than "%06llu" writes.
ZeroesPrefix(name) ==
    /\ name \notin FixedNames
    /\ Len(NumberPartOf(name)) > 6
    /\ Head(NumberPartOf(name)) = 48

\* The type that ParseFileName is to give for a name of the name function.
TypeOf(maker) ==
    CASE maker = "LogFileName" -> kLogFile
      [] maker \in {"TableFileName", "SSTTableFileName"} -> kTableFile
      [] maker = "TempFileName" -> kTempFile
      [] maker = "DescriptorFileName" -> kDescriptorFile
      [] maker = "CurrentFileName" -> kCurrentFile
      [] maker = "LockFileName" -> kDBLockFile
      [] maker \in {"InfoLogFileName", "OldInfoLogFileName"} -> kInfoLogFile

\* The base name of a numbered name function f for n parses to n and to the
\* type of f.
RoundTrip ==
    fn_made # <<>> /\ fn_made[1] \in {"LogFileName", "TableFileName", "SSTTableFileName",
                                      "TempFileName", "DescriptorFileName"} =>
        /\ fn_ok
        /\ fn_number = fn_made[2]
        /\ fn_type = TypeOf(fn_made[1])

\* C30 as stated: the base name of LogFileName, TableFileName,
\* SSTTableFileName, TempFileName or DescriptorFileName for n parses to n and
\* the matching type; two different accepted names never give the same
\* (number, type); a name with a non-digit character in the number part,
\* with more zeroes in front of the number than the format writes, or with
\* an unknown extension is rejected.
C30_ParseIsBijection ==
    /\ RoundTrip
    /\ fn_ok /\ fn_prev.ok /\ fn_name # fn_prev.name =>
           <<fn_number, fn_type>> # <<fn_prev.number, fn_prev.type>>
    /\ NonDigitInNumber(fn_name) \/ ZeroesPrefix(fn_name) \/ UnknownExtension(fn_name) =>
           ~fn_ok

\* The digits ds without the zeroes in front, the last digit kept.
RECURSIVE StripZeroes(_)
StripZeroes(ds) == IF Len(ds) > 1 /\ Head(ds) = 48 THEN StripZeroes(Tail(ds)) ELSE ds

\* The name without the zeroes in front of its number, with .ldb for .sst
\* and LOG for LOG.old.
Canonical(name) ==
    IF name \in FixedNames
    THEN (IF name = Tail(OldInfoLogFileName) THEN Tail(InfoLogFileName) ELSE name)
    ELSE (IF IsManifestName(name) THEN ManifestPrefix ELSE <<>>)
         \o StripZeroes(NumberPartOf(name))
         \o (IF ExtensionOf(name) = <<46, 115, 115, 116>> THEN <<46, 108, 100, 98>>
             ELSE ExtensionOf(name))

\* C30: the base name of LogFileName, TableFileName, SSTTableFileName,
\* TempFileName or DescriptorFileName for n parses to n and the matching
\* type, and CURRENT, LOCK, LOG and LOG.old parse to 0 and their type; a
\* name with a non-digit character in the number part or with an unknown
\* extension is rejected, and number and type are then left as they were;
\* zeroes in front of the number are accepted in any number, so that the
\* parser is not injective: two accepted names give the same (number, type)
\* exactly when they differ only in zeroes in front of the number, in .sst
\* for .ldb, or in LOG.old for LOG.
C30_ParseInvertsNameFunctions ==
    /\ RoundTrip
    /\ fn_made # <<>> => fn_ok /\ fn_type = TypeOf(fn_made[1])
    /\ fn_name \in FixedNames => fn_ok /\ fn_number = 0
    /\ NonDigitInNumber(fn_name) \/ UnknownExtension(fn_name) =>
           ~fn_ok /\ fn_number = UNINIT /\ fn_type = "uninit"
    /\ (ZeroesPrefix(fn_name) /\ ~NonDigitInNumber(fn_name)
            /\ ~UnknownExtension(fn_name)) =>
           fn_ok /\ fn_number = DecimalValue(0, NumberPartOf(fn_name))
    /\ fn_ok /\ fn_prev.ok =>
           (<<fn_number, fn_type>> = <<fn_prev.number, fn_prev.type>>
                <=> Canonical(fn_name) = Canonical(fn_prev.name))

\* The .sst name of file 8 is parsed after its .ldb name: two names of one
\* (number, type).
C30_Witness ==
    /\ fn_made = <<"SSTTableFileName", 8>>
    /\ fn_prev.name = Tail(TableFileName(8))
    /\ fn_ok /\ fn_prev.ok
    /\ fn_number = 8 /\ fn_prev.number = 8
    /\ fn_type = kTableFile /\ fn_prev.type = kTableFile

----------------------------------------------------------------------------
(* Claims about concurrent use of the table cache.                         *)

\* The membership of the two lists of a shard, for the heap hp.
ListsAgree(hp, inuse, lru) ==
    /\ NoDuplicates(inuse) /\ NoDuplicates(lru)
    /\ \A h \in Handles :
          /\ OnList(inuse, h) <=> (hp[h].in_cache /\ hp[h].refs >= 2)
          /\ OnList(lru, h) <=> (hp[h].in_cache /\ hp[h].refs = 1)

\* usage is the sum of the charges of the cached entries of the heap hp.
UsageAgrees(hp, usage) ==
    usage = SumOver({h \in Handles : hp[h].in_cache}, [h \in Handles |-> hp[h].charge])

\* The entries of the heap hp that are cached under a key.
CachedUnder(hp, key) ==
    {h \in Handles : hp[h].alloc = "live" /\ hp[h].in_cache /\ hp[h].key = key}

\* C31: when a thread that has missed on a file number inserts its table
\* after another thread has inserted one for the same file number, the
\* insert succeeds and its entry is the only one cached for the key; the
\* displaced entry stays allocated, with its table and without its deleter
\* run, while a thread holds it.  The deleter of an entry runs at most
\* once, with the key and value of its insert, only when no handle to it
\* is left, and it runs in the step that releases the last handle of an
\* entry that has left the cache.  After every step the list membership
\* and the usage agree with the heap.
C31_ConcurrentMisses ==
    [][/\ ListsAgree(heap', in_use_', lru_')
       /\ UsageAgrees(heap', usage_')
       /\ \A h \in Handles :
             /\ Len(deleter_calls'[h]) <= 1
             /\ deleter_calls'[h] # deleter_calls[h] =>
                    /\ held'[h] = 0
                    /\ deleter_calls'[h] = <<inserted[h]>>
                    /\ heap'[h].alloc = "freed"
             /\ (held[h] > 0 /\ held'[h] = 0 /\ ~heap[h].in_cache) =>
                    deleter_calls'[h] = <<inserted[h]>>
       /\ \A t \in Threads :
             (/\ tc_thread[t].pc = "open" /\ tc_thread'[t].pc # "open"
              /\ Openable(tc_thread[t].file_number)
              /\ CachedTable(tc_thread[t].file_number) # NULL) =>
                 \E old \in {CachedTable(tc_thread[t].file_number)} :
                    /\ next_handle' = next_handle + 1
                    /\ held'[next_handle] = 1
                    /\ CachedUnder(heap', EncodeFixed64(tc_thread[t].file_number))
                           = {next_handle}
                    /\ HandleTableLookup(heap', table_',
                           EncodeFixed64(tc_thread[t].file_number),
                           KeyHash[EncodeFixed64(tc_thread[t].file_number)]) = next_handle
                    /\ IF held[old] > 0
                       THEN /\ heap'[old].alloc = "live"
                            /\ heap'[old].value = ValueFor(old)
                            /\ ~heap'[old].in_cache
                            /\ held'[old] = held[old]
                            /\ heap'[old].refs = held[old]
                            /\ deleter_calls'[old] = <<>>
                       ELSE deleter_calls'[old] = <<inserted[old]>>]_vars

\* Two threads have missed on table 8 and both have inserted it: the entry
\* of the first is out of the cache and still held, that of the second is
\* the one cached, and no deleter has run.
C31_Witness ==
    /\ raced # 0
    /\ held[raced] > 0
    /\ heap[raced].alloc = "live" /\ ~heap[raced].in_cache
    /\ deleter_calls[raced] = <<>>
    /\ \E g \in Handles :
          /\ g # raced
          /\ CachedTable(8) = g
          /\ heap[g].key = heap[raced].key
          /\ held[g] > 0

\* The clients of the table cache that hold a handle to the entry h: the
\* threads inside Get after FindTable and the live iterators of NewIterator.
GetsHolding(h) == {t \in Threads : tc_thread[t].pc = "get" /\ tc_thread[t].handle = h}
NoGetNoIterator ==
    /\ \A t \in Threads : tc_thread[t].pc # "get"
    /\ \A h \in Handles : iterators[h] = 0

\* C32: the handles of an entry that are not yet released are exactly those
\* of the Gets in progress on it and of the live iterators on it, one each;
\* a thread in or after a failed FindTable has no handle.  So with no Get
\* past FindTable and no live iterator no entry has a client reference:
\* every cached entry has refs 1 and is on the lru list.
C32_HandlesReleasedOnce ==
    /\ \A h \in Handles : held[h] = Cardinality(GetsHolding(h)) + iterators[h]
    /\ \A t \in Threads :
          /\ tc_thread[t].pc \in {"idle", "open", "failed"} => tc_thread[t].handle = NULL
          /\ tc_thread[t].pc = "get" => tc_thread[t].handle \in Handles
    /\ NoGetNoIterator =>
          /\ in_use_ = <<>>
          /\ \A h \in Handles :
                /\ held[h] = 0
                /\ heap[h].alloc = "live" => (heap[h].in_cache /\ heap[h].refs = 1
                                              /\ OnList(lru_, h))

\* Both tables were opened, a FindTable has failed, every Get has returned
\* and every iterator is destroyed: one table is cached and on the lru
\* list, the other was deleted.
C32_Witness ==
    /\ NoGetNoIterator
    /\ \A t \in Threads : tc_thread[t].pc = "idle"
    /\ next_handle = 3
    /\ find_failed # 0
    /\ \E h, g \in Handles :
          /\ heap[h].in_cache /\ OnList(lru_, h)
          /\ heap[g].alloc = "freed" /\ Len(deleter_calls[g]) = 1

\* What an iteration over all entries of the stored table reports.
FullIterationStatus(found) == IF found = "good" THEN "OK" ELSE "Corruption: table"

\* C33: a BuildTable that went through the verification of its file
\* returns OK only if a full iteration over the table in the file reports
\* no error, and otherwise the file is removed.
C33_VerifiedByIteration ==
    (bt_pc = "done" /\ stored # "unread") =>
        IF bt_ret = "OK"
        THEN FullIterationStatus(stored) = "OK"
        ELSE TableFileName(meta.number) \notin table_files

----------------------------------------------------------------------------
(* Claims about the pending index entry of the table builder.              *)

\* The entries added to a block builder so far.
AddedEntries(block) == BlockEntries(BlockBuilderFinish(block).buffer)

\* The entries of the index block of the file f of a finished table.
IndexEntriesIn(f) == BlockEntries(f[Len(f) - 2].bytes)

\* The step is a call of Add, a call of Finish.
AddStep == add_calls' # add_calls
FinishStep == ~finished /\ finished'
\* The step has appended a block with its trailer to the file.
BlockWritten == offset' > offset

----------------------------------------------------------------------------
(* Claims about searches that run beside an Insert.                        *)

\* C35: a search that runs beside the writer, whichever value of
\* max_height_ it has loaded and whatever it finds in the links of head_,
\* moves only along initialised links and over keys smaller than its
\* target, returns no key smaller than its target, and returns a key that
\* is not above any key >= target whose Insert had returned before the
\* search began.  max_height_ is in 1..kMaxHeight and never decreases.
C35_SearchBesideInsert ==
    /\ [](/\ max_height_ \in 1..kMaxHeight
          /\ \A r \in DOMAIN reader :
                \E it \in {reader[r]} :
                   /\ it.pc # "undefined"
                   /\ (it.pc = "seeking" /\ it.node_ # head_) =>
                          node[it.node_].key < it.target
                   /\ it.pc = "found" =>
                          /\ it.node_ # NULL => node[it.node_].key >= it.target
                          /\ \A k \in it.before :
                                k >= it.target =>
                                    (it.node_ # NULL /\ node[it.node_].key <= k))
    /\ [][max_height_' >= max_height_]_vars

\* A search that loaded the max_height_ stored by an Insert that has not
\* returned yet, raising the list to its greatest height, has found a key
\* inserted before the search began.
C35_Witness ==
    \E r \in DOMAIN reader :
        /\ reader[r].pc = "found"
        /\ writer.pc # "idle"
        /\ writer.was < kMaxHeight
        /\ reader[r].height = kMaxHeight
        /\ reader[r].node_ # NULL
        /\ node[reader[r].node_].key \in reader[r].before
        /\ reader[r].target < node[reader[r].node_].key

----------------------------------------------------------------------------
(* Claims about the links of the skiplist while an Insert runs.            *)

\* The nodes met from node n along the links of a level in the memory mem,
\* up to the null link; UNINIT at the end if a link was never written or
\* the links do not end within fuel nodes.
RECURSIVE ChainFrom(_, _, _, _)
ChainFrom(mem, n, level, fuel) ==
    IF n = NULL THEN <<>>
    ELSE IF n = UNINIT \/ fuel = 0 \/ n \notin DOMAIN mem THEN <<UNINIT>>
    ELSE IF level >= mem[n].height THEN <<UNINIT>>
    ELSE <<n>> \o ChainFrom(mem, mem[n].next_[level], level, fuel - 1)

LevelChain(mem, level) ==
    ChainFrom(mem, mem[head_].next_[level], level, Cardinality(DOMAIN mem))

\* Every level is a strictly ascending chain from head_ that ends with the
\* null link, and the nodes of a level are among those of the level below.
LevelsAreChains(mem) ==
    \E chains \in {[level \in 0..(kMaxHeight - 1) |-> LevelChain(mem, level)]} :
        \A level \in 0..(kMaxHeight - 1) :
            /\ \A i \in 1..Len(chains[level]) : chains[level][i] # UNINIT
            /\ \A i \in 1..(Len(chains[level]) - 1) :
                   mem[chains[level][i]].key < mem[chains[level][i + 1]].key
            /\ level >= 1 =>
                   \A i \in 1..Len(chains[level]) :
                       \E j \in 1..Len(chains[level - 1]) :
                           chains[level - 1][j] = chains[level][i]

\* C39: in every state, between the stores of an Insert in progress too,
\* in the memory as the readers see it and as the writer sees it, each
\* level is a strictly ascending null-terminated chain from head_ and the
\* nodes of level i >= 1 are nodes of level i - 1.
C39_LevelsAreChains ==
    /\ LevelsAreChains(node)
    /\ LevelsAreChains(ApplyStores(node, relaxed))

\* An Insert of a node of the greatest height is between its stores: the
\* node is linked at levels 0 and 1 and not yet above, beside two nodes
\* inserted before.
C39_Witness ==
    /\ writer.pc = "publish"
    /\ writer.height = kMaxHeight
    /\ writer.i = 2
    /\ Cardinality(completed) = 2
    /\ \E i \in 1..Len(LevelChain(node, 1)) : LevelChain(node, 1)[i] = writer.x
    /\ LevelChain(node, 2) = <<>>
    /\ Len(LevelChain(node, 0)) = 3
    /\ Len(LevelChain(node, 1)) >= 2

----------------------------------------------------------------------------
(* Claims about Insert calls that are not serialised.                      *)

\* Both racing calls of Insert have returned.
BothReturned ==
    DOMAIN racers = RaceThreads /\ \A t \in RaceThreads : racers[t].done

\* The key of thread t is met from head_ along level 0.
Linked(t) ==
    \E i \in 1..Len(LevelChain(node, 0)) : LevelChain(node, 0)[i] = racers[t].w.x

\* One call began after the other had returned.
Serialised ==
    \E t, u \in DOMAIN racers : t # u /\ racers[t].key \in racers[u].before

\* C40: two Insert calls whose steps interleave can lose a key; calls of
\* which one began after the other had returned lose none.  Whenever both
\* have returned, level 0 is a null-terminated chain of inserted keys that
\* holds the key of at least one call; if the calls were serialised it
\* holds both keys, in ascending order.
C40_LostOnlyWithoutSerialisation ==
    BothReturned =>
        \E chain \in {LevelChain(node, 0)} :
            /\ \A i \in 1..Len(chain) : chain[i] # UNINIT
            /\ \E t \in RaceThreads : Linked(t)
            /\ Serialised =>
                   /\ \A t \in RaceThreads : Linked(t)
                   /\ Len(chain) = 2
                   /\ node[chain[1]].key < node[chain[2]].key

\* Both calls have returned, their steps having interleaved, and the key of
\* one of them is not met from head_ at level 0: a lost insert.
C40_Witness ==
    /\ BothReturned
    /\ ~Serialised
    /\ \E t \in RaceThreads : ~Linked(t)
    /\ completed = {racers[1].key, racers[2].key}

----------------------------------------------------------------------------
(* Claims about the filters that StartBlock emits.                         *)

\* C36: between a StartBlock(o) and Finish the number of filters emitted is
\* o / 2048, rounded down.  A StartBlock that emits filters puts the filter
\* of all pending keys first, at the end of what was emitted before, and
\* gives every further filter the offset where that first filter ends, so
\* that they are empty; the offsets emitted before stay.  A StartBlock that
\* emits none leaves the pending keys pending, and AddKey emits none.
C36_FiltersPerStartBlock ==
    /\ []((fb_offset >= 0 /\ ~fb_finished) =>
              Len(fb_builder.filter_offsets) = fb_offset \div kFilterBase)
    /\ [][~fb_finished' =>
              \E n \in {Len(fb_builder.filter_offsets)},
                 m \in {Len(fb_builder'.filter_offsets)} :
                  /\ m >= n
                  /\ SubSeq(fb_builder'.filter_offsets, 1, n) = fb_builder.filter_offsets
                  /\ m > n =>
                         /\ fb_offset' > fb_offset
                         /\ fb_builder'.keys = <<>>
                         /\ fb_builder'.result =
                                fb_builder.result
                                    \o CreateFilter(fb_builder.policy, fb_builder.keys)
                         /\ fb_builder'.filter_offsets[n + 1] = Len(fb_builder.result)
                         /\ \A i \in (n + 2)..m :
                                fb_builder'.filter_offsets[i] = Len(fb_builder'.result)
                  /\ (m = n /\ fb_offset' # fb_offset) => fb_builder' = fb_builder
      ]_vars

\* StartBlock(6200) after StartBlock(0) and keys: three filters, the first
\* with the keys, the second and the third empty.
C36_Witness ==
    /\ ~fb_finished
    /\ fb_offset = 6200
    /\ Len(fb_builder.filter_offsets) = 3
    /\ fb_builder.filter_offsets[1] = 0
    /\ fb_builder.filter_offsets[2] = Len(fb_builder.result)
    /\ fb_builder.filter_offsets[3] = Len(fb_builder.result)
    /\ Len(fb_builder.result) > 0
    /\ fb_builder.keys = <<>>
    /\ fb_keys # {}

----------------------------------------------------------------------------
(* Claims about the filter block reader on malformed contents.             *)

\* The contents are malformed for the filter of block_offset: shorter than
\* 5 bytes, the offset of the offset array beyond its place, no filter of
\* that index, the start of the filter above its limit, or its limit
\* beyond the start of the offset array.
Malformed(contents, block_offset) ==
    \/ Len(contents) < 5
    \/ DecodeFixed32(contents, Len(contents) - 4) > Len(contents) - 5
    \/ \E array_offset \in {DecodeFixed32(contents, Len(contents) - 4)},
          index \in {FilterIndex(block_offset, contents[Len(contents)])} :
           \/ index >= (Len(contents) - 5 - array_offset) \div 4
           \/ DecodeFixed32(contents, array_offset + index * 4 + 1)
                  > DecodeFixed32(contents, array_offset + index * 4 + 5)
           \/ DecodeFixed32(contents, array_offset + index * 4 + 5) > array_offset

\* C37: KeyMayMatch on contents that are malformed for the filter of its
\* block offset returns true.
C37_MalformedMayMatch ==
    (fb_call # <<>> /\ Malformed(fb_contents, fb_call[1])) => fb_call[3]

----------------------------------------------------------------------------
(* Claims about the reference count of a handle.                           *)

\* C38: the refs of an allocated handle is the number of client handles to
\* it that are not released, plus one if it is in_cache; so it is at least
\* 1, and a handle is freed, at refs 0, only when it is not in_cache and no
\* client holds it: neither assertion of Unref fails.
C38_RefsCountHolders ==
    \A h \in Handles :
        /\ heap[h].alloc = "live" =>
               /\ heap[h].refs = held[h] + (IF heap[h].in_cache THEN 1 ELSE 0)
               /\ heap[h].refs >= 1
        /\ heap[h].alloc = "freed" =>
               /\ ~heap[h].in_cache
               /\ heap[h].refs = 0
               /\ held[h] = 0
        /\ heap[h].alloc = "unallocated" => held[h] = 0

\* An entry in the cache with two client handles, refs 3, beside an entry
\* out of the cache with one client handle, refs 1, and an entry freed.
C38_Witness ==
    \E a, b, c \in Handles :
        /\ heap[a].alloc = "live" /\ heap[a].in_cache
        /\ held[a] = 2 /\ heap[a].refs = 3
        /\ heap[b].alloc = "live" /\ ~heap[b].in_cache
        /\ held[b] = 1 /\ heap[b].refs = 1
        /\ heap[c].alloc = "freed"

====
